---- MODULE Spec2Model ----
(***************************************************************************)
(* Model of the in-memory genealogical graph engine of treepilot           *)
(* (backend/gedcom_utils.py) and of the tool layer that drives it          *)
(* (backend/tools/gedcom_tree.py, backend/main.py).                        *)
(*                                                                         *)
(* The document is the python-gedcom element tree: the root owns an        *)
(* ordered list of top-level elements (INDI, FAM, SOUR), every element     *)
(* owns an ordered list of child elements.  Strings are modelled by        *)
(* records that keep what the code inspects: an id keeps whether it is     *)
(* written with its @ delimiters, its letter and its number; a date keeps  *)
(* its whitespace-separated tokens.                                        *)
(***************************************************************************)
EXTENDS Integers, Sequences, FiniteSets, TLC

(***************************************************************************)
(* Bounds of the model.                                                    *)
(***************************************************************************)
MaxIndi  == 4   \* no add_individual once an individual numbered MaxIndi exists
MaxFam   == 2   \* no new family once a family numbered MaxFam exists
MaxSour  == 1   \* no new source once a source numbered MaxSour exists
MaxTx    == 2   \* transactions begun in one run
MaxSteps == 3   \* write calls made in one run
MaxDepth == 3   \* largest depth bound given to the tree builders

(***************************************************************************)
(* Strings.                                                                *)
(***************************************************************************)
None == [k |-> "None"]
Empty == [k |-> "empty"]
Id(at, l, n) == [k |-> "id", at |-> at, l |-> l, n |-> n]
Ptr(l, n) == Id(TRUE, l, n)
Bare(l, n) == Id(FALSE, l, n)
Text(s) == [k |-> "text", s |-> s]
Num(digits, v) == [t |-> "num", digits |-> digits, v |-> v]
Word(s) == [t |-> "word", s |-> s]
Date(toks) == [k |-> "date", toks |-> toks]

\* `if not x.startswith('@'): x = f"@{x}@"'
NormalizeId(x) == IF x.at THEN x ELSE [x EXCEPT !.at = TRUE]

\* python truthiness of an optional string argument
Truthy(s) == s # None /\ s # Empty

(***************************************************************************)
(* Elements.                                                               *)
(***************************************************************************)
Element(tag, value, children) == [tag |-> tag, val |-> value, ch |-> children]
TopElement(tag, pointer, children) == [tag |-> tag, ptr |-> pointer, ch |-> children]

IsIndividual(e) == e.tag = "INDI"
IsFamily(e) == e.tag = "FAM"

RemoveAt(s, i) == SubSeq(s, 1, i - 1) \o SubSeq(s, i + 1, Len(s))

\* the first of a set of indices, 0 when there is none
FirstIdx(S) == IF S = {} THEN 0 ELSE CHOOSE i \in S : \A j \in S : i <= j

\* index of the first child with the given tag, 0 when there is none
ChildIdx(e, tag) ==
    LET T(c) == c.tag = tag IN FirstIdx({k \in 1..Len(e.ch) : T(e.ch[k])})

SeqMax(S) == IF S = {} THEN 0 ELSE CHOOSE m \in S : \A x \in S : x <= m

(***************************************************************************)
(* The world a call runs in: w.root is the list of top-level elements of   *)
(* the parser, w.built / w.ghosts are the parser's pointer dictionary      *)
(* (built on first use, dropped by invalidate_cache; it keeps the objects  *)
(* removed from the root since it was built), w.active / w.ops are the     *)
(* module-level transaction globals (0 is None), w.log is the history of   *)
(* record_operation calls that appended, tagged with the transaction.      *)
(***************************************************************************)
NoElement == TopElement("none", None, <<>>)

\* find_individual_by_id: index in the root of the first individual with
\* the normalized pointer, 0 when absent
find_individual_by_id(root, person_id) ==
    LET T(e) == IsIndividual(e) /\ e.ptr = NormalizeId(person_id)
    IN FirstIdx({k \in 1..Len(root) : T(root[k])})

FindFamilyIdx(root, family_id) ==
    LET T(e) == IsFamily(e) /\ e.ptr = family_id
    IN FirstIdx({k \in 1..Len(root) : T(root[k])})

FindSourceIdx(root, source_id) ==
    LET T(e) == e.tag = "SOUR" /\ e.ptr = source_id
    IN FirstIdx({k \in 1..Len(root) : T(root[k])})

\* parser.invalidate_cache()
invalidate_cache(w) == [w EXCEPT !.built = FALSE, !.ghosts = {}]

\* parser.get_element_dictionary() builds the dictionary when it is empty
BuildCache(w) == IF w.root = <<>> THEN w ELSE [w EXCEPT !.built = TRUE]

\* the dictionary entry of a pointer: the object removed since the
\* dictionary was built, else the last top-level element with the pointer
DictGet(w, v) ==
    IF \E g \in w.ghosts : g.ptr = v
    THEN CHOOSE g \in w.ghosts : g.ptr = v
    ELSE IF \E i \in 1..Len(w.root) : w.root[i].ptr = v
         THEN w.root[CHOOSE i \in 1..Len(w.root) :
                        w.root[i].ptr = v /\ \A j \in (i + 1)..Len(w.root) : w.root[j].ptr # v]
         ELSE NoElement

\* root.get_child_elements().remove(element): the dictionary, when built,
\* keeps the removed object
RemoveTop(w, i) ==
    LET e == w.root[i]
        isEntry == \A j \in (i + 1)..Len(w.root) : w.root[j].ptr # e.ptr
        shadowed == \E g \in w.ghosts : g.ptr = e.ptr
    IN [w EXCEPT !.root = RemoveAt(@, i),
                 !.ghosts = IF w.built /\ isEntry /\ ~shadowed THEN @ \cup {e} ELSE @]

\* the elements a sequence of child elements names through the dictionary
RECURSIVE Deref(_, _, _)
Deref(w, children, tags) ==
    IF children = <<>> THEN <<>>
    ELSE LET c == Head(children)
             rest == Deref(w, Tail(children), tags)
         IN IF c.tag \in tags /\ DictGet(w, c.val) # NoElement
            THEN <<DictGet(w, c.val)>> \o rest
            ELSE rest

\* parser.get_families(individual, family_type)
get_families(w, individual, family_type) ==
    LET T(e) == IsFamily(e)
    IN SelectSeq(Deref(w, individual.ch, {family_type}), T)

\* parser.get_family_members(family, members_type)
get_family_members(w, family, tags) == Deref(w, family.ch, tags)

RECURSIVE FlatMembers(_, _, _)
FlatMembers(w, families, tags) ==
    IF families = <<>> THEN <<>>
    ELSE get_family_members(w, Head(families), tags) \o FlatMembers(w, Tail(families), tags)

\* parser.get_parents(individual): HUSB/WIFE members of the FAMC families
parser_get_parents(w, individual) ==
    FlatMembers(w, get_families(w, individual, "FAMC"), {"HUSB", "WIFE"})

\* individual.get_gender(): value of the SEX child, "" when there is none
get_gender(e) ==
    IF ChildIdx(e, "SEX") = 0 THEN "" ELSE e.ch[ChildIdx(e, "SEX")].val.s

\* individual.get_birth_data()[0]: the DATE under BIRT, "" when there is none
get_birth_date(e) ==
    IF ChildIdx(e, "BIRT") = 0 THEN Empty
    ELSE LET b == e.ch[ChildIdx(e, "BIRT")]
         IN IF ChildIdx(b, "DATE") = 0 THEN Empty ELSE b.ch[ChildIdx(b, "DATE")].val

(***************************************************************************)
(* Transactions (gedcom_utils.py, "Transaction-Based Undo System").        *)
(* A call that raises returns the world it was given and raised = TRUE.    *)
(***************************************************************************)
NoRecord == [id |-> 0, operations |-> <<>>, operation_count |-> 0]

\* begin_transaction without its check of the active transaction
begin_transaction_unchecked(w, txid) ==
    [w |-> [w EXCEPT !.active = txid, !.ops = <<>>], raised |-> FALSE]

begin_transaction(w, txid) ==
    IF w.active # 0
    THEN [w |-> w, raised |-> TRUE]
    ELSE [w |-> [w EXCEPT !.active = txid, !.ops = <<>>], raised |-> FALSE]

record_operation(w, operation) ==
    IF w.active = 0
    THEN w
    ELSE [w EXCEPT !.ops = Append(@, operation),
                   !.log = Append(@, [tx |-> w.active, op |-> operation])]

\* commit_transaction that forgets to clear the operation buffer
commit_transaction_keeps_buffer(w) ==
    IF w.active = 0
    THEN [w |-> w, raised |-> TRUE, record |-> NoRecord]
    ELSE [w |-> [w EXCEPT !.active = 0],
          raised |-> FALSE,
          record |-> [id |-> w.active,
                      operations |-> w.ops,
                      operation_count |-> Len(w.ops)]]

commit_transaction(w) ==
    IF w.active = 0
    THEN [w |-> w, raised |-> TRUE, record |-> NoRecord]
    ELSE [w |-> [w EXCEPT !.active = 0, !.ops = <<>>],
          raised |-> FALSE,
          record |-> [id |-> w.active,
                      operations |-> w.ops,
                      operation_count |-> Len(w.ops)]]

\* rollback_transaction that takes the records of the buffered operations
\* out of the document again
rollback_transaction_reverts(w) ==
    IF w.active = 0
    THEN [w |-> w, raised |-> TRUE]
    ELSE [w |-> [w EXCEPT !.active = 0, !.ops = <<>>,
                          !.root = SubSeq(@, 1, Len(@) - Len(w.ops))],
          raised |-> FALSE]

\* rollback_transaction that forgets to clear the operation buffer
rollback_transaction_keeps_buffer(w) ==
    IF w.active = 0
    THEN [w |-> w, raised |-> TRUE]
    ELSE [w |-> [w EXCEPT !.active = 0], raised |-> FALSE]

rollback_transaction(w) ==
    IF w.active = 0
    THEN [w |-> w, raised |-> TRUE]
    ELSE [w |-> [w EXCEPT !.active = 0, !.ops = <<>>], raised |-> FALSE]

(***************************************************************************)
(* Id generation.                                                          *)
(***************************************************************************)
\* int(pointer.strip('@').strip(letter)) succeeds on a pointer that is the
\* letter followed by a number; other pointers are skipped
ParsedNumbers(root, tag, letter) ==
    {root[i].ptr.n : i \in {j \in 1..Len(root) : root[j].tag = tag /\ root[j].ptr.l = letter}}

\* an id made of the number of individuals instead of the largest number
generate_new_individual_id_by_count(root) ==
    Ptr("I", Cardinality({j \in 1..Len(root) : root[j].tag = "INDI"}) + 1)

generate_new_individual_id(root) ==
    Ptr("I", SeqMax(ParsedNumbers(root, "INDI", "I")) + 1)

generate_new_family_id(root) ==
    Ptr("F", SeqMax(ParsedNumbers(root, "FAM", "F")) + 1)

generate_new_source_id(root) ==
    Ptr("S", SeqMax(ParsedNumbers(root, "SOUR", "S")) + 1)

(***************************************************************************)
(* Dates.  A date string is the sequence of its whitespace-separated       *)
(* tokens; a token is a number with its count of digits, or a word.        *)
(***************************************************************************)
Upper(s) ==
    CASE s = "march" -> "MARCH"
      [] s = "mar" -> "MAR"
      [] s = "abt" -> "ABT"
      [] s = "educ" -> "EDUC"
      [] s = "note" -> "NOTE"
      [] s = "occu" -> "OCCU"
      [] OTHER -> s

UpperTok(p) == IF p.t = "word" THEN Word(Upper(p.s)) ELSE p

IsYearTok(p) == p.t = "num" /\ p.digits = 4

month_corrections ==
    [MARCH |-> "MAR", JANUARY |-> "JAN", DECEMBER |-> "DEC"]

CorrectTok(p) ==
    IF p.t = "word" /\ p.s \in DOMAIN month_corrections
    THEN Word(month_corrections[p.s]) ELSE p

Warn(level, what) == [level |-> level, what |-> what]

\* validate_and_correct_date: (corrected_date, warnings)
validate_and_correct_date(date_str) ==
    IF ~Truthy(date_str)
    THEN [date |-> None, warnings |-> <<>>]
    ELSE LET parts == [i \in 1..Len(date_str.toks) |-> UpperTok(date_str.toks[i])]
             has_year == \E i \in 1..Len(parts) : IsYearTok(parts[i])
             corrected == [i \in 1..Len(parts) |-> CorrectTok(parts[i])]
             W(p) == p.t = "word" /\ p.s \in DOMAIN month_corrections
         IN IF ~has_year
            THEN [date |-> Date(<<Word("ABT")>> \o parts),
                  warnings |-> <<Warn("INFO", "no 4-digit year")>>]
            ELSE [date |-> Date(corrected),
                  warnings |-> [i \in 1..Len(SelectSeq(parts, W)) |->
                                   Warn("INFO", "corrected month")]]

NoYear == -1

\* extract_year: the first 4-digit token as a number, None when there is none
extract_year(date_str) ==
    IF ~Truthy(date_str) THEN NoYear
    ELSE LET i == FirstIdx({k \in 1..Len(date_str.toks) : IsYearTok(date_str.toks[k])})
         IN IF i = 0 THEN NoYear ELSE date_str.toks[i].v

\* python truthiness of an optional int: None and 0 are false
YearTruthy(y) == y # NoYear /\ y # 0

\* check_date_consistency: list of warnings
check_date_consistency(birth_date, death_date, parent_birth_date) ==
    LET birth_year == extract_year(birth_date)
        death_year == extract_year(death_date)
        parent_birth_year == extract_year(parent_birth_date)
        parent_age == birth_year - parent_birth_year
        life == IF YearTruthy(birth_year) /\ YearTruthy(death_year)
                THEN IF death_year < birth_year
                     THEN <<Warn("ERROR", "death before birth")>>
                     ELSE IF death_year - birth_year > 120
                          THEN <<Warn("WARNING", "age at death")>>
                          ELSE <<>>
                ELSE <<>>
        par == IF YearTruthy(birth_year) /\ YearTruthy(parent_birth_year)
               THEN IF parent_age < 10
                    THEN <<Warn("ERROR", "parent too young")>>
                    ELSE IF parent_age > 80
                         THEN <<Warn("WARNING", "parent age")>>
                         ELSE <<>>
               ELSE <<>>
    IN life \o par

\* any("ERROR:" in w for w in warnings)
HasError(warnings) == \E i \in 1..Len(warnings) : warnings[i].level = "ERROR"

(***************************************************************************)
(* Mutation engine.  Every operation returns the new world and its result. *)
(***************************************************************************)
Now == [k |-> "now"]
Name(first, last) == [k |-> "name", first |-> first, last |-> last]
Sex(g) == [k |-> "sex", s |-> g]

\* the optional DATE / PLAC children of an event
EventChildren(date, place) ==
    (IF Truthy(date) THEN <<Element("DATE", date, <<>>)>> ELSE <<>>)
    \o (IF Truthy(place) THEN <<Element("PLAC", place, <<>>)>> ELSE <<>>)

OptionalEvent(tag, date, place) ==
    IF Truthy(date) \/ Truthy(place)
    THEN <<Element(tag, Empty, EventChildren(date, place))>>
    ELSE <<>>

ChanElement ==
    Element("CHAN", Empty, <<Element("DATE", Now, <<Element("TIME", Now, <<>>)>>)>>)

\* add_individual that appends the individual before looking at the
\* consistency findings
add_individual_appends_first(w, first_name, last_name, gender0, birth_date0, birth_place, death_date0, death_place, notes) ==
    LET gender == IF gender0 \in {"M", "F", "U"} THEN gender0 ELSE "U"
        birth == validate_and_correct_date(birth_date0)
        death == validate_and_correct_date(death_date0)
        warnings == birth.warnings \o death.warnings
                    \o check_date_consistency(birth.date, death.date, None)
        new_id == generate_new_individual_id(w.root)
        indi == TopElement("INDI", new_id,
                    <<Element("NAME", Name(first_name, last_name), <<>>),
                      Element("SEX", Sex(gender), <<>>)>>
                    \o OptionalEvent("BIRT", birth.date, birth_place)
                    \o OptionalEvent("DEAT", death.date, death_place)
                    \o <<ChanElement>>)
        added == invalidate_cache([w EXCEPT !.root = Append(@, indi)])
    IN IF HasError(warnings)
       THEN [w |-> added,
             r |-> [success |-> FALSE, id |-> None, warnings |-> warnings]]
       ELSE [w |-> record_operation(added, [type |-> "add_individual",
                                            person_id |-> new_id]),
             r |-> [success |-> TRUE, id |-> new_id, warnings |-> warnings]]

add_individual(w, first_name, last_name, gender0, birth_date0, birth_place, death_date0, death_place, notes) ==
    LET gender == IF gender0 \in {"M", "F", "U"} THEN gender0 ELSE "U"
        gender_warnings == IF gender0 \in {"M", "F", "U"} THEN <<>>
                           ELSE <<Warn("INFO", "invalid gender")>>
        birth == validate_and_correct_date(birth_date0)
        death == validate_and_correct_date(death_date0)
        warnings == gender_warnings \o birth.warnings \o death.warnings
                    \o check_date_consistency(birth.date, death.date, None)
        new_id == generate_new_individual_id(w.root)
        indi == TopElement("INDI", new_id,
                    <<Element("NAME", Name(first_name, last_name),
                              <<Element("GIVN", Text(first_name), <<>>),
                                Element("SURN", Text(last_name), <<>>)>>),
                      Element("SEX", Sex(gender), <<>>)>>
                    \o OptionalEvent("BIRT", birth.date, birth_place)
                    \o OptionalEvent("DEAT", death.date, death_place)
                    \o [i \in 1..Len(notes) |-> Element("NOTE", notes[i], <<>>)]
                    \o <<ChanElement>>)
        added == invalidate_cache([w EXCEPT !.root = Append(@, indi)])
    IN IF HasError(warnings)
       THEN [w |-> w,
             r |-> [success |-> FALSE, id |-> None, warnings |-> warnings]]
       ELSE [w |-> record_operation(added, [type |-> "add_individual",
                                            person_id |-> new_id]),
             r |-> [success |-> TRUE, id |-> new_id, warnings |-> warnings]]

create_source_record(w, title) ==
    LET source_id == generate_new_source_id(w.root)
        sour == TopElement("SOUR", source_id,
                    <<Element("TITL", title, <<>>), ChanElement>>)
        added == invalidate_cache([w EXCEPT !.root = Append(@, sour)])
    IN [w |-> record_operation(added, [type |-> "add_source",
                                       source_id |-> source_id]),
        r |-> [success |-> TRUE, id |-> source_id]]

\* the number of decimal digits of n
RECURSIVE Digits(_)
Digits(n) == IF n < 10 THEN 1 ELSE 1 + Digits(n \div 10)

\* the test find_individual makes before it tries the identifier as an id:
\* it starts with @, or has at most 10 characters, starts with a letter and
\* holds a digit (an id is its letters followed by its number)
LooksLikeId(identifier) ==
    \/ identifier.at
    \/ (Len(identifier.l) + Digits(identifier.n) <= 10 /\ identifier.l # "")

\* find_individual: by id when the identifier looks like one, else by name;
\* no name of a document holds the text of an id, so the name search of an
\* id finds nothing
find_individual(root, identifier) ==
    IF identifier.k = "id" /\ LooksLikeId(identifier)
    THEN find_individual_by_id(root, identifier)
    ELSE 0

attach_source_citation(w, person_id, source_id0, event_type, page, quality, citation_text) ==
    LET i == find_individual(w.root, person_id)
        individual == w.root[i]
        source_id == NormalizeId(source_id0)
        sour_elem == Element("SOUR", source_id,
                        (IF Truthy(page) THEN <<Element("PAGE", page, <<>>)>> ELSE <<>>)
                        \o (IF quality \in {0, 1, 2, 3}
                            THEN <<Element("QUAY", [k |-> "int", n |-> quality], <<>>)>>
                            ELSE <<>>)
                        \o (IF Truthy(citation_text)
                            THEN <<Element("DATA", Empty,
                                       <<Element("TEXT", citation_text, <<>>)>>)>>
                            ELSE <<>>))
        with_event == IF ChildIdx(individual, event_type) = 0
                      THEN Append(individual.ch, Element(event_type, Empty, <<>>))
                      ELSE individual.ch
        j == IF ChildIdx(individual, event_type) = 0
             THEN Len(with_event) ELSE ChildIdx(individual, event_type)
        children == [with_event EXCEPT ![j].ch = Append(@, sour_elem)]
    IN IF i = 0
       THEN [w |-> w, r |-> [success |-> FALSE]]
       ELSE [w |-> record_operation([w EXCEPT !.root[i].ch = children],
                        [type |-> "attach_source",
                         person_id |-> individual.ptr,
                         source_id |-> source_id,
                         event_type |-> event_type]),
             r |-> [success |-> TRUE]]

create_family_record(w, husband_id0, wife_id0, marriage_date, marriage_place) ==
    LET family_id == generate_new_family_id(w.root)
        husband_id == IF Truthy(husband_id0) THEN NormalizeId(husband_id0) ELSE husband_id0
        wife_id == IF Truthy(wife_id0) THEN NormalizeId(wife_id0) ELSE wife_id0
        fam == TopElement("FAM", family_id,
                  (IF Truthy(husband_id) THEN <<Element("HUSB", husband_id, <<>>)>> ELSE <<>>)
                  \o (IF Truthy(wife_id) THEN <<Element("WIFE", wife_id, <<>>)>> ELSE <<>>)
                  \o OptionalEvent("MARR", marriage_date, marriage_place))
        added == invalidate_cache([w EXCEPT !.root = Append(@, fam)])
        referenced_individuals ==
            (IF Truthy(husband_id) THEN <<husband_id>> ELSE <<>>)
            \o (IF Truthy(wife_id) THEN <<wife_id>> ELSE <<>>)
    IN [w |-> record_operation(added,
                  [type |-> "add_family",
                   family_id |-> family_id,
                   referenced_individuals |-> referenced_individuals]),
        r |-> [success |-> TRUE, id |-> family_id]]

\* add_child_to_family that writes the child's FAMC without looking for the
\* family
add_child_to_family_unchecked(w, family_id0, child_id0) ==
    LET family_id == NormalizeId(family_id0)
        child_id == NormalizeId(child_id0)
        f == FindFamilyIdx(w.root, family_id)
        with_chil == IF f = 0 THEN w
                     ELSE [w EXCEPT !.root[f].ch = Append(@, Element("CHIL", child_id, <<>>))]
        c == find_individual_by_id(with_chil.root, child_id)
        with_famc == IF c = 0 THEN with_chil
                     ELSE [with_chil EXCEPT
                              !.root[c].ch = Append(@, Element("FAMC", family_id, <<>>))]
    IN [w |-> invalidate_cache(with_famc), r |-> [success |-> TRUE]]

add_child_to_family(w, family_id0, child_id0) ==
    LET family_id == NormalizeId(family_id0)
        child_id == NormalizeId(child_id0)
        f == FindFamilyIdx(w.root, family_id)
        with_chil == [w EXCEPT !.root[f].ch = Append(@, Element("CHIL", child_id, <<>>))]
        c == find_individual_by_id(with_chil.root, child_id)
        with_famc == IF c = 0 THEN with_chil
                     ELSE [with_chil EXCEPT
                              !.root[c].ch = Append(@, Element("FAMC", family_id, <<>>))]
    IN IF f = 0
       THEN [w |-> w, r |-> [success |-> FALSE]]
       ELSE [w |-> invalidate_cache(with_famc), r |-> [success |-> TRUE]]

\* get_all_ancestors: the ids reached from the frontier through the live
\* individuals' parents, the ids already visited included
RECURSIVE get_all_ancestors(_, _, _)
get_all_ancestors(w, frontier, visited) ==
    IF frontier = {} THEN visited
    ELSE LET pid == CHOOSE x \in frontier : TRUE
             i == find_individual_by_id(w.root, pid)
             parents == IF i = 0 THEN <<>> ELSE parser_get_parents(w, w.root[i])
             next == {parents[k].ptr : k \in {m \in 1..Len(parents) : IsIndividual(parents[m])}}
         IN IF pid \in visited
            THEN get_all_ancestors(w, frontier \ {pid}, visited)
            ELSE get_all_ancestors(w, (frontier \ {pid}) \cup next, visited \cup {pid})

detect_circular_ancestry(w, person_id, potential_parent_id) ==
    NormalizeId(person_id) \in get_all_ancestors(w, {potential_parent_id}, {})

\* the dictionary is built by the first parser.get_parents call, made when
\* the potential parent is found
AfterDetect(w, potential_parent_id) ==
    IF find_individual_by_id(w.root, potential_parent_id) = 0 THEN w ELSE BuildCache(w)

\* a slot choice that looks at the parent's gender only
parent_slot_by_gender(parent_gender, has_husband, has_wife) ==
    IF parent_gender = "F" THEN "WIFE" ELSE "HUSB"

\* the slot of an existing family the parent is written to: the one of the
\* parent's gender when free, else the free one, "none" when both are taken
parent_slot(parent_gender, has_husband, has_wife) ==
    IF parent_gender = "M" /\ ~has_husband THEN "HUSB"
    ELSE IF parent_gender = "F" /\ ~has_wife THEN "WIFE"
    ELSE IF ~has_husband THEN "HUSB"
    ELSE IF ~has_wife THEN "WIFE"
    ELSE "none"

\* add_family_relationship, the part after the circular-ancestry check
LinkParent(w, parent_id, child_id) ==
    LET p == find_individual_by_id(w.root, parent_id)
        c == find_individual_by_id(w.root, child_id)
        warnings == IF p # 0 /\ c # 0
                    THEN check_date_consistency(get_birth_date(w.root[c]), None,
                                                get_birth_date(w.root[p]))
                    ELSE <<>>
        parent_gender == IF p # 0 THEN get_gender(w.root[p]) ELSE "U"
        \* the family named by the child's first FAMC, 0 when there is none
        existing == IF c = 0 \/ ChildIdx(w.root[c], "FAMC") = 0 THEN 0
                    ELSE FindFamilyIdx(w.root, w.root[c].ch[ChildIdx(w.root[c], "FAMC")].val)
        has_husband == ChildIdx(w.root[existing], "HUSB") # 0
        has_wife == ChildIdx(w.root[existing], "WIFE") # 0
        slot == parent_slot(parent_gender, has_husband, has_wife)
        existing_id == w.root[existing].ptr
        filled == [w EXCEPT !.root[existing].ch = Append(@, Element(slot, parent_id, <<>>))]
        filled_fams == IF p = 0 THEN filled
                       ELSE [filled EXCEPT
                                !.root[p].ch = Append(@, Element("FAMS", existing_id, <<>>))]
        family_result == create_family_record(w,
                             IF parent_gender = "M" THEN parent_id ELSE None,
                             IF parent_gender = "F" THEN parent_id ELSE None,
                             None, None)
        family_id == family_result.r.id
        child_result == add_child_to_family(family_result.w, family_id, child_id)
        created_fams == IF p = 0 THEN child_result.w
                        ELSE [child_result.w EXCEPT
                                 !.root[p].ch = Append(@, Element("FAMS", family_id, <<>>))]
    IN IF HasError(warnings)
       THEN [w |-> w, r |-> [success |-> FALSE, family_id |-> None,
                             error |-> "age", warnings |-> warnings]]
       ELSE IF existing # 0
       THEN IF slot = "none"
            THEN [w |-> w, r |-> [success |-> FALSE, family_id |-> None,
                                  error |-> "full", warnings |-> <<>>]]
            ELSE [w |-> filled_fams, r |-> [success |-> TRUE, family_id |-> existing_id,
                                            error |-> "", warnings |-> warnings]]
       ELSE IF ~child_result.r.success
            THEN [w |-> child_result.w, r |-> [success |-> FALSE, family_id |-> None,
                                               error |-> "child", warnings |-> <<>>]]
            ELSE [w |-> created_fams, r |-> [success |-> TRUE, family_id |-> family_id,
                                             error |-> "", warnings |-> warnings]]

\* add_family_relationship that links before it looks at the result of the
\* circular-ancestry check
add_family_relationship_links_first(w, parent_id0, child_id0, check_circular) ==
    LET parent_id == NormalizeId(parent_id0)
        child_id == NormalizeId(child_id0)
        checked == IF check_circular THEN AfterDetect(w, parent_id) ELSE w
        linked == LinkParent(checked, parent_id, child_id)
    IN IF check_circular /\ detect_circular_ancestry(w, child_id, parent_id)
       THEN [w |-> linked.w, r |-> [success |-> FALSE, family_id |-> None,
                                    error |-> "circular", warnings |-> <<>>]]
       ELSE linked

add_family_relationship(w, parent_id0, child_id0, check_circular) ==
    LET parent_id == NormalizeId(parent_id0)
        child_id == NormalizeId(child_id0)
        checked == IF check_circular THEN AfterDetect(w, parent_id) ELSE w
    IN IF check_circular /\ detect_circular_ancestry(w, child_id, parent_id)
       THEN [w |-> checked, r |-> [success |-> FALSE, family_id |-> None,
                                   error |-> "circular", warnings |-> <<>>]]
       ELSE LinkParent(checked, parent_id, child_id)

add_spouse_relationship(w, spouse1_id0, spouse2_id0, marriage_date, marriage_place) ==
    LET spouse1_id == NormalizeId(spouse1_id0)
        spouse2_id == NormalizeId(spouse2_id0)
        s1 == find_individual_by_id(w.root, spouse1_id)
        s2 == find_individual_by_id(w.root, spouse2_id)
        gender1 == get_gender(w.root[s1])
        gender2 == get_gender(w.root[s2])
        swap == IF gender1 = "M" /\ gender2 = "F" THEN FALSE
                ELSE IF gender1 = "F" /\ gender2 = "M" THEN TRUE
                ELSE IF gender1 = "M" THEN FALSE
                ELSE IF gender2 = "M" THEN TRUE
                ELSE FALSE
        husband_id == IF swap THEN spouse2_id ELSE spouse1_id
        wife_id == IF swap THEN spouse1_id ELSE spouse2_id
        family_result == create_family_record(w, husband_id, wife_id,
                                              marriage_date, marriage_place)
        family_id == family_result.r.id
        fams == Element("FAMS", family_id, <<>>)
        with_fams1 == [family_result.w EXCEPT !.root[s1].ch = Append(@, fams)]
        with_fams2 == [with_fams1 EXCEPT !.root[s2].ch = Append(@, fams)]
    IN IF s1 = 0 \/ s2 = 0
       THEN [w |-> w, r |-> [success |-> FALSE, family_id |-> None]]
       ELSE [w |-> with_fams2, r |-> [success |-> TRUE, family_id |-> family_id]]

(***************************************************************************)
(* Field-level changes (update_person_metadata / apply_undo).  A change    *)
(* record is [person_id, changes]; a change is [field, old_value,          *)
(* new_value] where field is <<tag>> or <<parent tag, child tag>>.         *)
(***************************************************************************)
Change(field, old, new) == [field |-> field, old_value |-> old, new_value |-> new]

\* set_tag_value on st = [ch |-> children of the individual, changes |-> so far]
set_tag_value(st, tag, value) ==
    LET i == LET T(c) == c.tag = tag IN FirstIdx({k \in 1..Len(st.ch) : T(st.ch[k])})
    IN IF i # 0
       THEN [ch |-> [st.ch EXCEPT ![i].val = value],
             changes |-> Append(st.changes, Change(<<tag>>, st.ch[i].val, value))]
       ELSE [ch |-> Append(st.ch, Element(tag, value, <<>>)),
             changes |-> Append(st.changes, Change(<<tag>>, None, value))]

\* the birth_place / death_place branch: PLAC under the first event element
set_event_place(st, event_tag, place) ==
    LET i == LET T(c) == c.tag = event_tag IN FirstIdx({k \in 1..Len(st.ch) : T(st.ch[k])})
        j == ChildIdx(st.ch[i], "PLAC")
    IN IF i = 0 THEN st
       ELSE IF j # 0
       THEN [ch |-> [st.ch EXCEPT ![i].ch[j].val = place],
             changes |-> Append(st.changes,
                                Change(<<event_tag, "PLAC">>, st.ch[i].ch[j].val, place))]
       ELSE [ch |-> [st.ch EXCEPT ![i].ch = Append(@, Element("PLAC", place, <<>>))],
             changes |-> Append(st.changes, Change(<<event_tag, "PLAC">>, None, place))]

RECURSIVE set_custom_facts(_, _)
set_custom_facts(st, facts) ==
    IF facts = <<>> THEN st
    ELSE set_custom_facts(set_tag_value(st, Upper(Head(facts)[1]), Head(facts)[2]),
                          Tail(facts))

update_person_metadata(w, person_id, notes, occupation, birth_place, death_place, custom_facts) ==
    LET i == find_individual(w.root, person_id)
        st0 == [ch |-> w.root[i].ch, changes |-> <<>>]
        st1 == IF notes # None THEN set_tag_value(st0, "NOTE", notes) ELSE st0
        st2 == IF occupation # None THEN set_tag_value(st1, "OCCU", occupation) ELSE st1
        st3 == IF birth_place # None THEN set_event_place(st2, "BIRT", birth_place) ELSE st2
        st4 == IF death_place # None THEN set_event_place(st3, "DEAT", death_place) ELSE st3
        st5 == set_custom_facts(st4, custom_facts)
    IN IF i = 0
       THEN [w |-> w, found |-> FALSE, r |-> [person_id |-> None, changes |-> <<>>]]
       ELSE [w |-> [w EXCEPT !.root[i].ch = st5.ch],
             found |-> TRUE,
             r |-> [person_id |-> w.root[i].ptr, changes |-> st5.changes]]

\* one change of apply_undo, on the children of the individual
undo_change(ch, change) ==
    LET field == change.field
        i == LET T(c) == c.tag = field[1] IN FirstIdx({k \in 1..Len(ch) : T(ch[k])})
        j == ChildIdx(ch[i], field[2])
    IN IF i = 0 THEN ch
       ELSE IF Len(field) = 2
       THEN IF j = 0 THEN ch
            ELSE IF change.old_value = None
                 THEN [ch EXCEPT ![i].ch = RemoveAt(@, j)]
                 ELSE [ch EXCEPT ![i].ch[j].val = change.old_value]
       ELSE IF change.old_value = None
            THEN RemoveAt(ch, i)
            ELSE [ch EXCEPT ![i].val = change.old_value]

RECURSIVE undo_changes(_, _)
undo_changes(ch, changes) ==
    IF changes = <<>> THEN ch
    ELSE undo_changes(undo_change(ch, Head(changes)), Tail(changes))

\* apply_undo: ok is whether the message returned starts with "Successfully"
apply_undo(w, change_record) ==
    LET i == find_individual(w.root, change_record.person_id)
    IN IF i = 0
       THEN [w |-> w, ok |-> FALSE]
       ELSE [w |-> [w EXCEPT !.root[i].ch = undo_changes(@, change_record.changes)],
             ok |-> TRUE]

(***************************************************************************)
(* Transaction-level undo.  The state of the loop is                       *)
(* u = [w, errors, operations_undone].                                     *)
(***************************************************************************)
Reverse(s) == [i \in 1..Len(s) |-> s[Len(s) + 1 - i]]

Undone(u, w) == [u EXCEPT !.w = w, !.operations_undone = @ + 1]
Failed(u, what) == [u EXCEPT !.errors = Append(@, what)]

\* the add_individual branch counting the operation without removing the
\* individual
undo_add_individual_keeps(u, operation) ==
    LET i == find_individual_by_id(u.w.root, operation.person_id)
    IN IF i # 0 THEN Undone(u, u.w)
       ELSE Failed(u, "Could not find person to remove")

undo_add_individual(u, operation) ==
    LET i == find_individual_by_id(u.w.root, operation.person_id)
    IN IF i # 0 THEN Undone(u, RemoveTop(u.w, i))
       ELSE Failed(u, "Could not find person to remove")

undo_add_source(u, operation) ==
    LET i == FindSourceIdx(u.w.root, operation.source_id)
    IN IF i # 0 THEN Undone(u, RemoveTop(u.w, i))
       ELSE Failed(u, "Could not find source to remove")

undo_attach_source(u, operation) ==
    LET i == find_individual_by_id(u.w.root, operation.person_id)
        e == ChildIdx(u.w.root[i], operation.event_type)
        s == ChildIdx(u.w.root[i].ch[e], "SOUR")
    IN IF i = 0 THEN Failed(u, "Could not find person for source removal")
       ELSE IF e = 0 \/ s = 0 THEN u
       ELSE Undone(u, [u.w EXCEPT !.root[i].ch[e].ch = RemoveAt(@, s)])

\* removes the FAMC / FAMS children naming the family from one individual
strip_family_refs(w, ref_id, family_id) ==
    LET i == find_individual_by_id(w.root, ref_id)
        Keep(c) == ~(c.tag \in {"FAMC", "FAMS"} /\ c.val = family_id)
    IN IF i = 0 THEN w
       ELSE [w EXCEPT !.root[i].ch = SelectSeq(@, Keep)]

RECURSIVE strip_all_refs(_, _, _)
strip_all_refs(w, refs, family_id) ==
    IF refs = <<>> THEN w
    ELSE strip_all_refs(strip_family_refs(w, Head(refs), family_id), Tail(refs), family_id)

undo_add_family(u, operation) ==
    LET i == FindFamilyIdx(u.w.root, operation.family_id)
    IN IF i # 0
       THEN Undone(u, strip_all_refs(RemoveTop(u.w, i),
                                     operation.referenced_individuals,
                                     operation.family_id))
       ELSE Failed(u, "Could not find family to remove")

undo_update_metadata(u, operation) ==
    LET res == apply_undo(u.w, operation.change_record)
    IN IF res.ok THEN Undone(u, res.w) ELSE Failed(u, "Person not found")

\* the body of the loop: dispatch on the operation type
undo_operation(u, operation) ==
    CASE operation.type = "add_individual" -> undo_add_individual(u, operation)
      [] operation.type = "add_source" -> undo_add_source(u, operation)
      [] operation.type = "attach_source" -> undo_attach_source(u, operation)
      [] operation.type = "add_family" -> undo_add_family(u, operation)
      [] operation.type = "update_metadata" -> undo_update_metadata(u, operation)
      [] OTHER -> Failed(u, "Unknown operation type")

\* the loop leaving at the first error
RECURSIVE undo_loop_aborts(_, _)
undo_loop_aborts(u, operations) ==
    IF operations = <<>> \/ u.errors # <<>> THEN u
    ELSE undo_loop_aborts(undo_operation(u, Head(operations)), Tail(operations))

RECURSIVE undo_loop(_, _)
undo_loop(u, operations) ==
    IF operations = <<>> THEN u
    ELSE undo_loop(undo_operation(u, Head(operations)), Tail(operations))

\* walking the operations in recording order
UndoOrder_forward(operations) == operations

\* the order in which apply_transaction_undo walks the operations
UndoOrder(operations) == Reverse(operations)

apply_transaction_undo(w, transaction_record) ==
    LET u == undo_loop([w |-> w, errors |-> <<>>, operations_undone |-> 0],
                       UndoOrder(transaction_record.operations))
    IN [w |-> u.w,
        r |-> [success |-> Len(u.errors) = 0,
               operations_undone |-> u.operations_undone,
               errors |-> u.errors]]

(***************************************************************************)
(* gedcom_utils.get_parents: the read query; ids of the parents            *)
(***************************************************************************)
get_parents(w, person_id) ==
    LET i == find_individual(w.root, person_id)
        parents == parser_get_parents(w, w.root[i])
        T(e) == IsIndividual(e)
    IN IF i = 0 THEN [w |-> w, found |-> FALSE, r |-> <<>>]
       ELSE [w |-> BuildCache(w), found |-> TRUE,
             r |-> [k \in 1..Len(SelectSeq(parents, T)) |-> SelectSeq(parents, T)[k].ptr]]

(***************************************************************************)
(* gedcom_utils.get_siblings: the read query; ids of the siblings          *)
(***************************************************************************)
\* the elements of the sequence that are individuals
OnlyIndividuals(elements) ==
    LET T(e) == IsIndividual(e) IN SelectSeq(elements, T)

\* the CHIL members of the FAMS families of each parent, in the order the
\* loops of get_siblings visit them
RECURSIVE ChildrenOfParents(_, _)
ChildrenOfParents(w, parents) ==
    IF parents = <<>> THEN <<>>
    ELSE OnlyIndividuals(FlatMembers(w, get_families(w, Head(parents), "FAMS"), {"CHIL"}))
         \o ChildrenOfParents(w, Tail(parents))

\* the pointers of the children not seen before, in first-seen order
RECURSIVE Unseen(_, _)
Unseen(children, seen_ids) ==
    IF children = <<>> THEN <<>>
    ELSE IF Head(children).ptr \in seen_ids THEN Unseen(Tail(children), seen_ids)
    ELSE <<Head(children).ptr>> \o Unseen(Tail(children), seen_ids \cup {Head(children).ptr})

\* a get_siblings whose set of seen ids starts empty
get_siblings_unseeded(w, person_id) ==
    LET i == find_individual(w.root, person_id)
        parents == parser_get_parents(w, w.root[i])
    IN IF i = 0 THEN [w |-> w, found |-> FALSE, r |-> <<>>]
       ELSE [w |-> BuildCache(w), found |-> TRUE,
             r |-> IF parents = <<>> THEN <<>>
                   ELSE Unseen(ChildrenOfParents(w, OnlyIndividuals(parents)), {})]

\* a get_siblings that takes the other children of the person's own FAMC
\* families, whether or not the families have parents
get_siblings_of_child_families(w, person_id) ==
    LET i == find_individual(w.root, person_id)
        person_pointer == w.root[i].ptr
        famc == get_families(w, w.root[i], "FAMC")
    IN IF i = 0 THEN [w |-> w, found |-> FALSE, r |-> <<>>]
       ELSE [w |-> BuildCache(w), found |-> TRUE,
             r |-> Unseen(OnlyIndividuals(FlatMembers(w, famc, {"CHIL"})),
                          {person_pointer})]

get_siblings(w, person_id) ==
    LET i == find_individual(w.root, person_id)
        person_pointer == w.root[i].ptr
        parents == parser_get_parents(w, w.root[i])
    IN IF i = 0 THEN [w |-> w, found |-> FALSE, r |-> <<>>]
       ELSE [w |-> BuildCache(w), found |-> TRUE,
             r |-> IF parents = <<>> THEN <<>>
                   ELSE Unseen(ChildrenOfParents(w, OnlyIndividuals(parents)),
                               {person_pointer})]

(***************************************************************************)
(* gedcom_utils.get_children: the read query; ids of the children          *)
(***************************************************************************)
get_children(w, person_id) ==
    LET i == find_individual(w.root, person_id)
        children == OnlyIndividuals(FlatMembers(w, get_families(w, w.root[i], "FAMS"), {"CHIL"}))
    IN IF i = 0 THEN [w |-> w, found |-> FALSE, r |-> <<>>]
       ELSE [w |-> BuildCache(w), found |-> TRUE,
             r |-> [k \in 1..Len(children) |-> children[k].ptr]]

(***************************************************************************)
(* gedcom_utils.get_spouses: the read query; ids of the spouses            *)
(***************************************************************************)
\* the pointers of the elements, in order
PointersOf(elements) == [k \in 1..Len(elements) |-> elements[k].ptr]

\* the elements other than the individual
Others(elements, individual) ==
    LET T(e) == e # individual IN SelectSeq(elements, T)

\* what one family contributes: the members of the slot opposite to the
\* gender and, for a gender that is neither M nor F, the members of both
\* slots that are not the individual
SpousesIn(w, family, individual, gender) ==
    LET spouse_role == IF gender = "M" THEN "WIFE" ELSE "HUSB"
    IN OnlyIndividuals(get_family_members(w, family, {spouse_role}))
       \o (IF gender \notin {"M", "F"}
           THEN Others(OnlyIndividuals(get_family_members(w, family, {"HUSB"})), individual)
                \o Others(OnlyIndividuals(get_family_members(w, family, {"WIFE"})), individual)
           ELSE <<>>)

RECURSIVE SpousesOver(_, _, _, _)
SpousesOver(w, families, individual, gender) ==
    IF families = <<>> THEN <<>>
    ELSE SpousesIn(w, Head(families), individual, gender)
         \o SpousesOver(w, Tail(families), individual, gender)

get_spouses(w, person_id) ==
    LET i == find_individual(w.root, person_id)
        individual == w.root[i]
    IN IF i = 0 THEN [w |-> w, found |-> FALSE, r |-> <<>>]
       ELSE [w |-> BuildCache(w), found |-> TRUE,
             r |-> PointersOf(SpousesOver(w, get_families(w, individual, "FAMS"),
                                          individual, get_gender(individual)))]

(***************************************************************************)
(* gedcom_utils.build_ancestor_tree, build_descendant_tree and             *)
(* build_bidirectional_tree.  A node is a record: its id stands for the    *)
(* summary fields of get_individual_data, and the keys "children" and      *)
(* "direction" are fields that the record has or has not.                  *)
(***************************************************************************)
\* the loop that finds the person: the first individual whose pointer is
\* the person_id as given
FindByPointer(root, person_id) ==
    FirstIdx({k \in 1..Len(root) : IsIndividual(root[k]) /\ root[k].ptr = person_id})

\* get_children / get_children_elements of the tree builders: the CHIL
\* members of the families parser.get_families(individual) returns
get_children_elements(w, individual) ==
    OnlyIndividuals(FlatMembers(w, get_families(w, individual, "FAMS"), {"CHIL"}))

\* build_node of build_ancestor_tree
RECURSIVE build_ancestor_tree_node(_, _, _, _)
build_ancestor_tree_node(w, individual, depth, max_depth) ==
    LET parents == OnlyIndividuals(parser_get_parents(w, individual))
        children == [k \in 1..Len(parents) |->
                        build_ancestor_tree_node(w, parents[k], depth + 1, max_depth)]
    IN IF depth >= max_depth THEN [id |-> individual.ptr, children |-> <<>>]
       ELSE IF children = <<>> THEN [id |-> individual.ptr]
       ELSE [id |-> individual.ptr, children |-> children]

build_ancestor_tree(w, person_id, max_depth) ==
    LET i == FindByPointer(w.root, person_id)
    IN IF i = 0 THEN [w |-> w, found |-> FALSE, r |-> None]
       ELSE [w |-> BuildCache(w), found |-> TRUE,
             r |-> build_ancestor_tree_node(w, w.root[i], 0, max_depth)]

\* build_node of build_descendant_tree
RECURSIVE build_descendant_tree_node(_, _, _, _)
build_descendant_tree_node(w, individual, depth, max_depth) ==
    LET kids == get_children_elements(w, individual)
        children == [k \in 1..Len(kids) |->
                        build_descendant_tree_node(w, kids[k], depth + 1, max_depth)]
    IN IF depth >= max_depth THEN [id |-> individual.ptr, children |-> <<>>]
       ELSE IF children = <<>> THEN [id |-> individual.ptr]
       ELSE [id |-> individual.ptr, children |-> children]

build_descendant_tree(w, person_id, max_depth) ==
    LET i == FindByPointer(w.root, person_id)
    IN IF i = 0 THEN [w |-> w, found |-> FALSE, r |-> None]
       ELSE [w |-> BuildCache(w), found |-> TRUE,
             r |-> build_descendant_tree_node(w, w.root[i], 0, max_depth)]

\* build_ancestor_node of build_bidirectional_tree
RECURSIVE build_ancestor_node(_, _, _, _)
build_ancestor_node(w, individual, depth, ancestor_depth) ==
    LET parents == OnlyIndividuals(parser_get_parents(w, individual))
        children == [k \in 1..Len(parents) |->
                        build_ancestor_node(w, parents[k], depth + 1, ancestor_depth)]
    IN IF depth >= ancestor_depth \/ children = <<>>
       THEN [id |-> individual.ptr, direction |-> "ancestor"]
       ELSE [id |-> individual.ptr, direction |-> "ancestor", children |-> children]

\* build_descendant_node of build_bidirectional_tree
RECURSIVE build_descendant_node(_, _, _, _)
build_descendant_node(w, individual, depth, descendant_depth) ==
    LET kids == get_children_elements(w, individual)
        children == [k \in 1..Len(kids) |->
                        build_descendant_node(w, kids[k], depth + 1, descendant_depth)]
    IN IF depth >= descendant_depth \/ children = <<>>
       THEN [id |-> individual.ptr, direction |-> "descendant"]
       ELSE [id |-> individual.ptr, direction |-> "descendant", children |-> children]

\* the root node: the keys "ancestors" and "descendants" only when the
\* lists are not empty
RootNode(person, ancestors, descendants) ==
    LET base == [id |-> person.ptr, direction |-> "root"]
    IN CASE ancestors # <<>> /\ descendants # <<>> ->
                [id |-> person.ptr, direction |-> "root",
                 ancestors |-> ancestors, descendants |-> descendants]
         [] ancestors # <<>> /\ descendants = <<>> ->
                [id |-> person.ptr, direction |-> "root", ancestors |-> ancestors]
         [] ancestors = <<>> /\ descendants # <<>> ->
                [id |-> person.ptr, direction |-> "root", descendants |-> descendants]
         [] OTHER -> base

build_bidirectional_tree(w, person_id, ancestor_depth, descendant_depth) ==
    LET i == FindByPointer(w.root, person_id)
        person == w.root[i]
        parents == OnlyIndividuals(parser_get_parents(w, person))
        kids == get_children_elements(w, person)
        ancestors == [k \in 1..Len(parents) |->
                         build_ancestor_node(w, parents[k], 1, ancestor_depth)]
        descendants == [k \in 1..Len(kids) |->
                           build_descendant_node(w, kids[k], 1, descendant_depth)]
    IN IF i = 0 THEN [w |-> w, found |-> FALSE, r |-> None]
       ELSE [w |-> BuildCache(w), found |-> TRUE,
             r |-> RootNode(person, ancestors, descendants)]

(***************************************************************************)
(* Duplicate scorer.  A score is a whole number of 1/6000: every weight    *)
(* and every ratio of the model is a multiple of it.  The program adds the *)
(* weights in binary floating point, where a sum can fall one rounding     *)
(* short of its decimal value (0.6499999999999999 for 0.35 + 0.10 + 0.10 + *)
(* 0.10): the filter, the order and the percentage are taken from that     *)
(* score as they are taken here from the exact one.                        *)
(***************************************************************************)
Weight(hundredths) == hundredths * 60

\* str.lower() on the words of the model's names and places
Lower(s) ==
    CASE s = "Ann" -> "ann"
      [] s = "Lee" -> "lee"
      [] s = "Law" -> "law"
      [] s = "Bob" -> "bob"
      [] s = "Ray" -> "ray"
      [] s = "ANN" -> "ann"
      [] s = "LEE" -> "lee"
      [] s = "Boston" -> "boston"
      [] s = "Salem" -> "salem"
      [] s = "MA" -> "ma"
      [] OTHER -> s

LowerAll(words) == [k \in 1..Len(words) |-> Lower(words[k])]

\* f"{first_name} {last_name}".strip(): the words of the name
FullName(first, last) ==
    [k |-> "fullName", words |-> SelectSeq(<<first, last>>, LAMBDA s : s # "")]

\* a place: its comma-separated parts
Place(parts) == [k |-> "place", parts |-> parts]

\* individual.get_name(): ("", "") when there is no NAME
get_name(e) ==
    IF ChildIdx(e, "NAME") = 0 THEN Name("", "") ELSE e.ch[ChildIdx(e, "NAME")].val

\* individual.get_birth_year(): the last word of the birth date as a
\* number, -1 when there is none or it is no number
get_birth_year(e) ==
    LET date == get_birth_date(e)
    IN IF ~Truthy(date) THEN NoYear
       ELSE LET last == date.toks[Len(date.toks)]
            IN IF last.t = "num" THEN last.v ELSE NoYear

\* the value of the child `tag' of the event `event', "" when there is none
EventValue(e, event, tag) ==
    IF ChildIdx(e, event) = 0 THEN Empty
    ELSE LET b == e.ch[ChildIdx(e, event)]
         IN IF ChildIdx(b, tag) = 0 THEN Empty ELSE b.ch[ChildIdx(b, tag)].val

\* get_person_full_details: the fields the scorer reads; None stands for
\* the "Person not found" string
get_person_full_details(w, person_id) ==
    LET i == find_individual(w.root, person_id)
        individual == w.root[i]
        name == get_name(individual)
    IN IF i = 0 THEN None
       ELSE [k |-> "details",
             id |-> individual.ptr,
             fullName |-> FullName(name.first, name.last),
             gender |-> get_gender(individual),
             birthYear |-> get_birth_year(individual),
             birthPlace |-> EventValue(individual, "BIRT", "PLAC"),
             deathYear |-> extract_year(EventValue(individual, "DEAT", "DATE"))]

\* SequenceMatcher(None, a, b).get_matching_blocks(): the characters matched,
\* for the names of the model (it is not symmetric)
MatchingChars(a, b) ==
    CASE a = b -> 7
      [] a = <<"ann", "lee">> /\ b = <<"ann", "law">> -> 5
      [] a = <<"ann", "law">> /\ b = <<"ann", "lee">> -> 5
      [] a = <<"bob", "ray">> /\ b = <<"ann", "law">> -> 2
      [] OTHER -> 1

\* SequenceMatcher.ratio() * 0.35 = 2 * M / T * 0.35; every name of the
\* model has seven characters, so T = 14
name_score(existing, candidate) ==
    IF candidate.fullName # None /\ candidate.fullName.words # <<>>
       /\ existing.fullName.words # <<>>
    THEN (2 * MatchingChars(LowerAll(existing.fullName.words),
                            LowerAll(candidate.fullName.words)) * Weight(35)) \div 14
    ELSE 0

birth_year_score(existing, candidate) ==
    IF YearTruthy(existing.birthYear) /\ YearTruthy(candidate.birthYear)
    THEN LET d == existing.birthYear - candidate.birthYear
             year_diff == IF d < 0 THEN -d ELSE d
         IN IF year_diff = 0 THEN Weight(25)
            ELSE IF year_diff <= 1 THEN Weight(20)
            ELSE IF year_diff <= 3 THEN Weight(15)
            ELSE IF year_diff <= 5 THEN Weight(10)
            ELSE 0
    ELSE 0

\* `place2 in place1' for places made of whole parts
InPlace(place2, place1) ==
    \E k \in 0..(Len(place1) - Len(place2)) :
        \A j \in 1..Len(place2) : place1[k + j] = place2[j]

birth_place_score(existing, candidate) ==
    IF Truthy(existing.birthPlace) /\ Truthy(candidate.birthPlace)
    THEN LET place1 == LowerAll(existing.birthPlace.parts)
             place2 == LowerAll(candidate.birthPlace.parts)
             parts1 == {place1[k] : k \in 1..Len(place1)}
             parts2 == {place2[k] : k \in 1..Len(place2)}
             longest == IF Cardinality(parts1) > Cardinality(parts2)
                        THEN Cardinality(parts1) ELSE Cardinality(parts2)
         IN IF place1 = place2 THEN Weight(20)
            ELSE IF InPlace(place2, place1) \/ InPlace(place1, place2) THEN Weight(15)
            ELSE (Cardinality(parts1 \cap parts2) * Weight(20)) \div longest
    ELSE 0

gender_score(existing, candidate) ==
    IF existing.gender # "" /\ candidate.gender # ""
    THEN IF existing.gender = candidate.gender THEN Weight(10)
         ELSE IF "U" \notin {existing.gender, candidate.gender} THEN -Weight(5)
         ELSE 0
    ELSE 0

death_year_score(existing, candidate) ==
    IF YearTruthy(existing.deathYear) /\ YearTruthy(candidate.deathYear)
    THEN LET d == existing.deathYear - candidate.deathYear
             year_diff == IF d < 0 THEN -d ELSE d
         IN IF year_diff = 0 THEN Weight(10)
            ELSE IF year_diff <= 2 THEN Weight(7)
            ELSE IF year_diff <= 5 THEN Weight(4)
            ELSE 0
    ELSE 0

\* calculate_person_similarity: the sum, clamped to [0.0, 1.0]
calculate_person_similarity(existing, candidate) ==
    LET score == name_score(existing, candidate) + birth_year_score(existing, candidate)
                 + birth_place_score(existing, candidate)
                 + gender_score(existing, candidate)
                 + death_year_score(existing, candidate)
    IN IF score < 0 THEN 0 ELSE IF score > Weight(100) THEN Weight(100) ELSE score

\* find_individual_by_name: the position of the individual found, 0 for
\* None.  A name and a query are their words; the words of the model are
\* such that one text contains another exactly when its words hold the
\* other's words in a row.
find_individual_by_name(root, name) ==
    LET name_lower == LowerAll(name.words)
        full_name(e) == LowerAll(FullName(get_name(e).first, get_name(e).last).words)
        Hit(j) == /\ IsIndividual(root[j])
                  /\ \/ full_name(root[j]) = name_lower
                     \/ InPlace(name_lower, full_name(root[j]))
    IN FirstIdx({j \in 1..Len(root) : Hit(j)})

\* matches.sort(key=similarity, reverse=True): stable, so equal scores keep
\* the order in which they were appended
RECURSIVE sort_matches(_)
sort_matches(matches) ==
    IF matches = <<>> THEN <<>>
    ELSE LET n == Len(matches)
             m == matches[n]
             sorted == sort_matches(SubSeq(matches, 1, n - 1))
             before == SelectSeq(sorted, LAMBDA x : x.similarity >= m.similarity)
             after == SelectSeq(sorted, LAMBDA x : x.similarity < m.similarity)
         IN before \o <<m>> \o after

\* find_potential_duplicates that keeps only the scores above the threshold
find_potential_duplicates_above(w, candidate, threshold) ==
    LET individuals == SelectSeq(w.root, IsIndividual)
        Match(person) ==
            LET details == get_person_full_details(w, person.ptr)
                score == IF details = None THEN 0
                         ELSE calculate_person_similarity(details, candidate)
            IN [person |-> details, similarity |-> score,
                percentage |-> (score * 100) \div Weight(100)]
        scored == [k \in 1..Len(individuals) |-> Match(individuals[k])]
        Kept(m) == m.person # None /\ m.similarity > threshold
    IN sort_matches(SelectSeq(scored, Kept))

\* find_potential_duplicates: the matches of the candidate, best first
find_potential_duplicates(w, candidate, threshold) ==
    LET individuals == SelectSeq(w.root, IsIndividual)
        Match(person) ==
            LET details == get_person_full_details(w, person.ptr)
                score == IF details = None THEN 0
                         ELSE calculate_person_similarity(details, candidate)
            IN [person |-> details, similarity |-> score,
                percentage |-> (score * 100) \div Weight(100)]
        scored == [k \in 1..Len(individuals) |-> Match(individuals[k])]
        Kept(m) == m.person # None /\ m.similarity >= threshold
    IN sort_matches(SelectSeq(scored, Kept))

(***************************************************************************)
(* State.                                                                  *)
(***************************************************************************)
VARIABLES
    root,      \* parser: the top-level elements, in document order
    built,     \* parser: the pointer dictionary is built
    ghosts,    \* parser: objects the dictionary keeps though removed from the root
    active,    \* _active_transaction: 0 is None, else the transaction id
    ops,       \* _transaction_operations
    history,   \* main.change_history
    ret,       \* the call made last and what it returned
    log,       \* history variable: the operations recorded, with their transaction
    snap,      \* history variable: per transaction, the document at its begin and
               \* at its commit, how it ended, whether a write outside the
               \* grouped operations was made in it
    txCount,   \* transactions begun so far (their ids are 1..txCount)
    steps      \* write calls made so far

vars == <<root, built, ghosts, active, ops, history, ret, log, snap, txCount, steps>>

World == [root |-> root, built |-> built, ghosts |-> ghosts,
          active |-> active, ops |-> ops, log |-> log]

\* the variables of the world take the values of w
Becomes(w) ==
    /\ root' = w.root
    /\ built' = w.built
    /\ ghosts' = w.ghosts
    /\ active' = w.active
    /\ ops' = w.ops
    /\ log' = w.log

(***************************************************************************)
(* Inputs.                                                                 *)
(***************************************************************************)
D1850 == Date(<<Num(4, 1850)>>)
D1920 == Date(<<Num(2, 15), Word("march"), Num(4, 1920)>>)

Sources == {Bare("S", 1)}

\* the arguments of add_individual: a woman born 1850 who died on
\* "15 march 1920", and a man born 1920 who died 1850
Profiles ==
    { [gender |-> "F", birth_date |-> D1850, death_date |-> D1920],
      [gender |-> "M", birth_date |-> D1920, death_date |-> D1850] }

\* the persons named in citations and metadata updates
CitedPersons == {Bare("I", 1), Ptr("I", 4)}

\* the persons named as parent and as child
ParentArgs == {Ptr("I", 1), Bare("I", 2), Ptr("I", 3)}
ChildArgs == {Ptr("I", 1), Bare("I", 3)}
FamilyArgs == {Bare("F", 1), Ptr("F", 2)}

Indi(n, g, birth, more) ==
    TopElement("INDI", Ptr("I", n),
        <<Element("NAME", Name("N", "L"), <<>>), Element("SEX", Sex(g), <<>>)>>
        \o OptionalEvent("BIRT", birth, None) \o more)

\* the documents a run starts from: the empty one, and a couple with a
\* child in one family
InitialDocs ==
    { <<>>,
      << Indi(1, "M", D1850, <<Element("FAMS", Ptr("F", 1), <<>>)>>),
         Indi(2, "F", None, <<Element("FAMS", Ptr("F", 1), <<>>)>>),
         Indi(3, "U", Date(<<Num(4, 1920)>>), <<Element("FAMC", Ptr("F", 1), <<>>)>>),
         TopElement("FAM", Ptr("F", 1),
             <<Element("HUSB", Ptr("I", 1), <<>>), Element("WIFE", Ptr("I", 2), <<>>),
               Element("CHIL", Ptr("I", 3), <<>>)>>) >> }

Init ==
    /\ root \in InitialDocs
    /\ built = FALSE
    /\ ghosts = {}
    /\ active = 0
    /\ ops = <<>>
    /\ history = <<>>
    /\ ret = [op |-> "none", raised |-> FALSE]
    /\ log = <<>>
    /\ snap = <<>>
    /\ txCount = 0
    /\ steps = 0

\* the genders of the persons added without dates
Genders == {"M", "F", "U"}

\* the ids given to detect_circular_ancestry
CircArgs == {Ptr("I", 1), Bare("I", 1), Ptr("I", 3)}

\* a document with a family of two children and no parents, one of the
\* children having a child of their own
SiblingDoc ==
    << Indi(1, "M", None, <<Element("FAMC", Ptr("F", 1), <<>>),
                            Element("FAMS", Ptr("F", 2), <<>>)>>),
       Indi(2, "F", None, <<Element("FAMC", Ptr("F", 2), <<>>)>>),
       Indi(3, "U", None, <<Element("FAMC", Ptr("F", 1), <<>>)>>),
       TopElement("FAM", Ptr("F", 1),
           <<Element("CHIL", Ptr("I", 1), <<>>), Element("CHIL", Ptr("I", 3), <<>>)>>),
       TopElement("FAM", Ptr("F", 2),
           <<Element("HUSB", Ptr("I", 1), <<>>), Element("CHIL", Ptr("I", 2), <<>>)>>) >>

KinDocs == InitialDocs \cup {SiblingDoc}

InitKin ==
    /\ root \in KinDocs
    /\ built = FALSE
    /\ ghosts = {}
    /\ active = 0
    /\ ops = <<>>
    /\ history = <<>>
    /\ ret = [op |-> "none", raised |-> FALSE]
    /\ log = <<>>
    /\ snap = <<>>
    /\ txCount = 0
    /\ steps = 0

\* a document whose individual has a pointer of eleven characters between
\* the delimiters
LongIdDoc == << Indi(1234567890, "F", None, <<>>) >>

\* a couple with two families: the first lists one child twice and another
\* child that the second family lists too
TwoFamilyDoc ==
    << Indi(1, "M", None, <<Element("FAMS", Ptr("F", 1), <<>>),
                            Element("FAMS", Ptr("F", 2), <<>>)>>),
       Indi(2, "F", None, <<Element("FAMS", Ptr("F", 1), <<>>),
                            Element("FAMS", Ptr("F", 2), <<>>)>>),
       Indi(3, "U", None, <<Element("FAMC", Ptr("F", 1), <<>>)>>),
       Indi(4, "F", None, <<Element("FAMC", Ptr("F", 1), <<>>),
                            Element("FAMC", Ptr("F", 2), <<>>)>>),
       TopElement("FAM", Ptr("F", 1),
           <<Element("HUSB", Ptr("I", 1), <<>>), Element("WIFE", Ptr("I", 2), <<>>),
             Element("CHIL", Ptr("I", 3), <<>>), Element("CHIL", Ptr("I", 4), <<>>),
             Element("CHIL", Ptr("I", 3), <<>>)>>),
       TopElement("FAM", Ptr("F", 2),
           <<Element("HUSB", Ptr("I", 1), <<>>), Element("WIFE", Ptr("I", 2), <<>>),
             Element("CHIL", Ptr("I", 4), <<>>)>>) >>

\* the documents the read queries are made on
QueryDocs == KinDocs \cup {LongIdDoc, TwoFamilyDoc}

InitQuery ==
    /\ root \in QueryDocs
    /\ built = FALSE
    /\ ghosts = {}
    /\ active = 0
    /\ ops = <<>>
    /\ history = <<>>
    /\ ret = [op |-> "none", raised |-> FALSE]
    /\ log = <<>>
    /\ snap = <<>>
    /\ txCount = 0
    /\ steps = 0

\* a document whose parent links form a cycle: @I1@ is a child of @I2@ and
\* @I3@, and @I2@ is a child of @I1@
CyclicDoc ==
    << Indi(1, "M", None, <<Element("FAMC", Ptr("F", 1), <<>>),
                            Element("FAMS", Ptr("F", 2), <<>>)>>),
       Indi(2, "M", None, <<Element("FAMC", Ptr("F", 2), <<>>),
                            Element("FAMS", Ptr("F", 1), <<>>)>>),
       Indi(3, "F", None, <<Element("FAMS", Ptr("F", 1), <<>>)>>),
       TopElement("FAM", Ptr("F", 1),
           <<Element("HUSB", Ptr("I", 2), <<>>), Element("WIFE", Ptr("I", 3), <<>>),
             Element("CHIL", Ptr("I", 1), <<>>)>>),
       TopElement("FAM", Ptr("F", 2),
           <<Element("HUSB", Ptr("I", 1), <<>>), Element("CHIL", Ptr("I", 2), <<>>)>>) >>

\* the documents the trees are built from
TreeDocs == KinDocs \cup {TwoFamilyDoc, CyclicDoc}

InitTree ==
    /\ root \in TreeDocs
    /\ built = FALSE
    /\ ghosts = {}
    /\ active = 0
    /\ ops = <<>>
    /\ history = <<>>
    /\ ret = [op |-> "none", raised |-> FALSE]
    /\ log = <<>>
    /\ snap = <<>>
    /\ txCount = 0
    /\ steps = 0

\* a document whose first individual has a note, an occupation, a birth
\* with a place and a death without one, and whose second has none of them
FieldDoc ==
    << Indi(1, "M", D1850,
            OptionalEvent("DEAT", D1850, None)
            \o <<Element("NOTE", Text("x"), <<>>), Element("OCCU", Text("y"), <<>>)>>),
       TopElement("INDI", Ptr("I", 2),
           <<Element("NAME", Name("N", "L"), <<>>), Element("SEX", Sex("F"), <<>>)>>
           \o OptionalEvent("BIRT", D1850, Text("q"))) >>

\* the custom_facts of a request, in the order of the dict
CustomFactArgs ==
    { <<>>,
      << <<"educ", Text("e")>> >>,
      << <<"note", Text("e")>> >>,
      << <<"educ", Text("e")>>, <<"EDUC", Text("f")>> >> }

\* the arguments of update_person_metadata, every one given or not
FieldArgs ==
    [notes : {None, Text("n")}, occupation : {None, Text("o")},
     birth_place : {None, Text("p")}, death_place : {None, Text("p")},
     custom_facts : CustomFactArgs]

InitFields ==
    /\ root = FieldDoc
    /\ built = FALSE
    /\ ghosts = {}
    /\ active = 0
    /\ ops = <<>>
    /\ history = <<>>
    /\ ret = [op |-> "none", raised |-> FALSE]
    /\ log = <<>>
    /\ snap = <<>>
    /\ txCount = 0
    /\ steps = 0

\* the documents uploaded: the document with the fields, and another whose
\* first individual has none of them
UploadDocs == {FieldDoc, << Indi(1, "F", None, <<>>), Indi(2, "M", None, <<>>) >>}

\* a document with two source records, whose first individual has a birth
\* that cites the first of them and whose second has no birth
CitedDoc ==
    << TopElement("SOUR", Ptr("S", 0), <<Element("TITL", Text("title"), <<>>)>>),
       TopElement("SOUR", Ptr("S", 1), <<Element("TITL", Text("title"), <<>>)>>),
       TopElement("INDI", Ptr("I", 1),
           <<Element("NAME", Name("N", "L"), <<>>), Element("SEX", Sex("M"), <<>>),
             Element("BIRT", Empty,
                 EventChildren(D1850, None)
                 \o <<Element("SOUR", Ptr("S", 0), <<Element("PAGE", Text("p"), <<>>)>>)>>)>>),
       Indi(2, "F", None, <<>>) >>

\* the source ids given to attach_source_citation
CitedSources == {Ptr("S", 0), Bare("S", 1)}

InitCite ==
    /\ root = CitedDoc
    /\ built = FALSE
    /\ ghosts = {}
    /\ active = 0
    /\ ops = <<>>
    /\ history = <<>>
    /\ ret = [op |-> "none", raised |-> FALSE]
    /\ log = <<>>
    /\ snap = <<>>
    /\ txCount = 0
    /\ steps = 0

\* an individual with a name, a birth and a death
Person(n, first, last, g, birth, place, death) ==
    TopElement("INDI", Ptr("I", n),
        <<Element("NAME", Name(first, last), <<>>), Element("SEX", Sex(g), <<>>)>>
        \o OptionalEvent("BIRT", birth, place) \o OptionalEvent("DEAT", death, None))

\* two women of Boston with close names and dates, a man of Salem, and
\* (in the second document) an individual of whom only the gender is known
DuplicateDocs ==
    LET ann == Person(1, "Ann", "Lee", "F", D1850, Place(<<"Boston", "MA">>), D1920)
        law == Person(2, "Ann", "Law", "F", Date(<<Word("ABT"), Num(4, 1851)>>),
                      Place(<<"Boston">>), Date(<<Num(4, 1922)>>))
        bob == Person(3, "Bob", "Ray", "M", Date(<<Num(4, 1856)>>),
                      Place(<<"Salem", "MA">>), None)
        anon == TopElement("INDI", Ptr("I", 4), <<Element("SEX", Sex("U"), <<>>)>>)
    IN { <<bob, law, ann>>, <<law, anon, ann, bob>> }

\* the documents searched by name: three of four individuals, in any
\* order; one of them has a given name only, one has no name
NamedPersons ==
    { Person(1, "Ann", "Lee", "F", None, None, None),
      Person(2, "Ann", "", "F", None, None, None),
      Person(3, "Bob", "Ray", "M", None, None, None),
      TopElement("INDI", Ptr("I", 4), <<Element("SEX", Sex("U"), <<>>)>>) }

NameDocs ==
    {<<a, b, c>> : a, b, c \in NamedPersons} \ {d \in {<<a, b, c>> : a, b, c \in NamedPersons} :
        d[1] = d[2] \/ d[1] = d[3] \/ d[2] = d[3]}

\* the names asked for
NameArgs ==
    { [k |-> "fullName", words |-> ws] :
        ws \in { <<>>, <<"ann">>, <<"Ann">>, <<"ANN", "LEE">>, <<"ann", "lee">>,
                 <<"lee">>, <<"Bob">>, <<"ray">>, <<"Bob", "Ray">>, <<"lee", "ann">>,
                 <<"zed">> } }

InitNames ==
    /\ root \in NameDocs
    /\ built = FALSE
    /\ ghosts = {}
    /\ active = 0
    /\ ops = <<>>
    /\ history = <<>>
    /\ ret = [op |-> "none", raised |-> FALSE]
    /\ log = <<>>
    /\ snap = <<>>
    /\ txCount = 0
    /\ steps = 0

\* the candidates given to find_potential_duplicates
Candidates ==
    [ k : {"candidate"},
      fullName : {None, FullName("ann", "lee"), FullName("Bob", "Ray")},
      birthYear : {NoYear, 1850, 1853},
      birthPlace : {None, Place(<<"Boston">>), Place(<<"Salem", "MA">>)},
      gender : {"", "F", "M"},
      deathYear : {NoYear, 1920} ]

\* the thresholds: 0.50, the default 0.60, and 0.82
Thresholds == {Weight(50), Weight(60), Weight(82)}

InitDuplicates ==
    /\ root \in DuplicateDocs
    /\ built = FALSE
    /\ ghosts = {}
    /\ active = 0
    /\ ops = <<>>
    /\ history = <<>>
    /\ ret = [op |-> "none", raised |-> FALSE]
    /\ log = <<>>
    /\ snap = <<>>
    /\ txCount = 0
    /\ steps = 0

\* the dates given to check_date_consistency: none, a day and month without
\* a year, and years on both sides of the limits 10, 80 and 120 from 1850
DateArgs ==
    {None, Date(<<Num(2, 15), Word("MAR")>>)}
    \cup {Date(<<Num(4, y)>>) : y \in {0, 1769, 1770, 1840, 1841, 1849, 1850,
                                        1970, 1971}}

MetaInputs ==
    { [notes |-> Text("n"), occupation |-> None, birth_place |-> None,
       death_place |-> None, custom_facts |-> <<>>],
      [notes |-> None, occupation |-> Text("o"), birth_place |-> Text("p"),
       death_place |-> None, custom_facts |-> << <<"educ", Text("e")>> >>] }

\* the bounds on the ids of the document
WithinBounds(w) ==
    \A i \in 1..Len(w.root) :
        w.root[i].ptr.n <= (CASE w.root[i].tag = "INDI" -> MaxIndi
                              [] w.root[i].tag = "FAM" -> MaxFam
                              [] OTHER -> MaxSour)

IsTransactionRecord(rec) == "operations" \in DOMAIN rec

\* a write call: the world becomes res.w, the transaction history variables
\* note a write that is not one of the grouped operations
Write(res, grouped) ==
    /\ steps < MaxSteps
    /\ WithinBounds(res.w)
    /\ Becomes(res.w)
    /\ steps' = steps + 1
    /\ snap' = IF active # 0 /\ ~grouped
               THEN [snap EXCEPT ![active].other = TRUE] ELSE snap
    /\ UNCHANGED txCount

(***************************************************************************)
(* Actions: one per call.                                                  *)
(***************************************************************************)
BeginTransaction ==
    LET res == begin_transaction(World, txCount + 1)
    IN /\ txCount < MaxTx
       /\ Becomes(res.w)
       /\ ret' = [op |-> "begin_transaction", raised |-> res.raised]
       /\ txCount' = IF res.raised THEN txCount ELSE txCount + 1
       /\ snap' = IF res.raised THEN snap
                  ELSE Append(snap, [begin |-> root, commit |-> <<>>,
                                     status |-> "open", other |-> FALSE])
       /\ UNCHANGED <<history, steps>>

\* commit_person_transaction: commit_transaction, then the record is
\* appended to the change history
CommitTransaction ==
    LET res == commit_transaction(World)
    IN /\ Becomes(res.w)
       /\ ret' = [op |-> "commit_transaction", raised |-> res.raised,
                  record |-> res.record]
       /\ history' = IF res.raised THEN history ELSE Append(history, res.record)
       /\ snap' = IF res.raised THEN snap
                  ELSE [snap EXCEPT ![active].commit = root,
                                    ![active].status = "committed"]
       /\ UNCHANGED <<txCount, steps>>

RollbackTransaction ==
    LET res == rollback_transaction(World)
    IN /\ Becomes(res.w)
       /\ ret' = [op |-> "rollback_transaction", raised |-> res.raised]
       /\ snap' = IF res.raised THEN snap
                  ELSE [snap EXCEPT ![active].status = "rolled back"]
       /\ UNCHANGED <<history, txCount, steps>>

AddIndividual ==
    \E a \in Profiles :
        LET res == add_individual(World, "N", "L", a.gender, a.birth_date, None,
                                  a.death_date, None, <<>>)
        IN /\ Write(res, TRUE)
           /\ ret' = [op |-> "add_individual", raised |-> FALSE, args |-> a,
                      r |-> [success |-> res.r.success, id |-> res.r.id]]
           /\ UNCHANGED history

CreateSourceRecord ==
    LET res == create_source_record(World, Text("title"))
    IN /\ Write(res, TRUE)
       /\ ret' = [op |-> "create_source_record", raised |-> FALSE, r |-> res.r]
       /\ UNCHANGED history

AttachSourceCitation ==
    \E p \in CitedPersons, s \in Sources :
        LET res == attach_source_citation(World, p, s, "BIRT", None, 3, None)
        IN /\ Write(res, TRUE)
           /\ ret' = [op |-> "attach_source_citation", raised |-> FALSE, r |-> res.r]
           /\ UNCHANGED history

CreateFamilyRecord ==
    \E h \in {None, Ptr("I", 1)}, wf \in {None, Bare("I", 2)} :
        LET res == create_family_record(World, h, wf, None, None)
        IN /\ Write(res, TRUE)
           /\ ret' = [op |-> "create_family_record", raised |-> FALSE, r |-> res.r]
           /\ UNCHANGED history

AddChildToFamily ==
    \E f \in FamilyArgs, c \in ChildArgs :
        LET res == add_child_to_family(World, f, c)
        IN /\ Write(res, TRUE)
           /\ ret' = [op |-> "add_child_to_family", raised |-> FALSE, r |-> res.r]
           /\ UNCHANGED history

AddFamilyRelationship ==
    \E p \in ParentArgs, c \in ChildArgs, check \in BOOLEAN :
        LET res == add_family_relationship(World, p, c, check)
        IN /\ Write(res, TRUE)
           /\ ret' = [op |-> "add_family_relationship", raised |-> FALSE,
                      r |-> [success |-> res.r.success, family_id |-> res.r.family_id,
                             error |-> res.r.error]]
           /\ UNCHANGED history

AddSpouseRelationship ==
    \E a \in ParentArgs, b \in ChildArgs :
        LET res == add_spouse_relationship(World, a, b, None, None)
        IN /\ Write(res, TRUE)
           /\ ret' = [op |-> "add_spouse_relationship", raised |-> FALSE, r |-> res.r]
           /\ UNCHANGED history

\* the update_person_metadata tool: a change record with changes is
\* appended to the change history
UpdatePersonMetadata ==
    \E p \in CitedPersons, m \in MetaInputs :
        LET res == update_person_metadata(World, p, m.notes, m.occupation,
                       m.birth_place, m.death_place, m.custom_facts)
        IN /\ Write(res, FALSE)
           /\ ret' = [op |-> "update_person_metadata", raised |-> FALSE,
                      r |-> [success |-> res.found, record |-> res.r]]
           /\ history' = IF res.found /\ res.r.changes # <<>>
                         THEN Append(history, res.r) ELSE history

\* the undo_transaction tool: the record at the index is removed from the
\* change history and undone
UndoTransaction ==
    \E idx \in 1..Len(history) :
        LET rec == history[idx]
            res == apply_transaction_undo(World, rec)
        IN IF ~IsTransactionRecord(rec)
           THEN /\ ret' = [op |-> "undo_transaction", raised |-> FALSE, applied |-> FALSE]
                /\ UNCHANGED <<root, built, ghosts, active, ops, history, log, snap,
                               txCount, steps>>
           ELSE /\ Becomes(res.w)
                /\ history' = RemoveAt(history, idx)
                /\ ret' = [op |-> "undo_transaction", raised |-> FALSE, applied |-> TRUE,
                           record |-> rec, before |-> root, r |-> res.r]
                /\ snap' = IF active # 0
                           THEN [snap EXCEPT ![active].other = TRUE] ELSE snap
                /\ UNCHANGED <<txCount, steps>>

\* a read query (get_parents): it builds the pointer dictionary
GetParents ==
    \E p \in ChildArgs :
        LET res == get_parents(World, p)
        IN /\ res.w # World
           /\ Becomes(res.w)
           /\ UNCHANGED <<history, ret, snap, txCount, steps>>

\* add_individual for a person without dates
AddPerson ==
    \E g \in Genders :
        LET res == add_individual(World, "N", "L", g, None, None, None, None, <<>>)
        IN /\ Write(res, TRUE)
           /\ ret' = [op |-> "add_individual", raised |-> FALSE,
                      args |-> [gender |-> g, birth_date |-> None, death_date |-> None],
                      r |-> [success |-> res.r.success, id |-> res.r.id]]
           /\ UNCHANGED history

\* the link_parent_child tool: add_family_relationship with the ids and the
\* check_circular flag of the request
LinkParentChild ==
    \E p \in ParentArgs, c \in ChildArgs, check \in BOOLEAN :
        LET res == add_family_relationship(World, p, c, check)
        IN /\ Write(res, TRUE)
           /\ ret' = [op |-> "link_parent_child", raised |-> FALSE,
                      parent_id |-> p, child_id |-> c, check_circular |-> check,
                      r |-> [success |-> res.r.success, family_id |-> res.r.family_id,
                             error |-> res.r.error]]
           /\ UNCHANGED history

\* a detect_circular_ancestry call; parser.get_parents builds the pointer
\* dictionary when the potential parent is found
DetectCircularAncestry ==
    \E x \in CircArgs, y \in CircArgs :
        /\ Becomes(AfterDetect(World, y))
        /\ ret' = [op |-> "detect_circular_ancestry", raised |-> FALSE,
                   person_id |-> x, potential_parent_id |-> y,
                   r |-> detect_circular_ancestry(World, x, y)]
        /\ UNCHANGED <<history, snap, txCount, steps>>

\* the id of an individual of the document, as it stands or without its
\* @ delimiters
PersonArgs(doc) ==
    {[doc[i].ptr EXCEPT !.at = a] :
        i \in {j \in 1..Len(doc) : IsIndividual(doc[j])}, a \in BOOLEAN}

\* a find_individual call with the id of an individual of the document
FindIndividual ==
    \E p \in PersonArgs(root) :
        /\ ret' = [op |-> "find_individual", raised |-> FALSE, identifier |-> p,
                   r |-> find_individual(root, p)]
        /\ UNCHANGED <<root, built, ghosts, active, ops, history, log, snap, txCount, steps>>

\* a get_parents call with the id of an individual of the document
QueryParents ==
    \E p \in PersonArgs(root) :
        LET res == get_parents(World, p)
        IN /\ Becomes(res.w)
           /\ ret' = [op |-> "get_parents", raised |-> FALSE, identifier |-> p,
                      found |-> res.found, r |-> res.r]
           /\ UNCHANGED <<history, snap, txCount, steps>>

\* a get_siblings call with the id of an individual of the document
QuerySiblings ==
    \E p \in PersonArgs(root) :
        LET res == get_siblings(World, p)
        IN /\ Becomes(res.w)
           /\ ret' = [op |-> "get_siblings", raised |-> FALSE, identifier |-> p,
                      found |-> res.found, r |-> res.r]
           /\ UNCHANGED <<history, snap, txCount, steps>>

\* the link_spouses tool: add_spouse_relationship with the ids of the request
LinkSpouses ==
    \E a \in ParentArgs, b \in ChildArgs :
        LET res == add_spouse_relationship(World, a, b, None, None)
        IN /\ Write(res, TRUE)
           /\ ret' = [op |-> "link_spouses", raised |-> FALSE,
                      spouse1_id |-> a, spouse2_id |-> b, r |-> res.r]
           /\ UNCHANGED history

\* a get_children call with the id of an individual of the document
QueryChildren ==
    \E p \in PersonArgs(root) :
        LET res == get_children(World, p)
        IN /\ Becomes(res.w)
           /\ ret' = [op |-> "get_children", raised |-> FALSE, identifier |-> p,
                      found |-> res.found, r |-> res.r]
           /\ UNCHANGED <<history, snap, txCount, steps>>

\* a get_spouses call with the id of an individual of the document
QuerySpouses ==
    \E p \in PersonArgs(root) :
        LET res == get_spouses(World, p)
        IN /\ Becomes(res.w)
           /\ ret' = [op |-> "get_spouses", raised |-> FALSE, identifier |-> p,
                      found |-> res.found, r |-> res.r]
           /\ UNCHANGED <<history, snap, txCount, steps>>

\* the update_person_metadata tool, called by a client that has no change
\* left to undo: the change record is kept when it has changes
UpdateFields ==
    \E p \in PersonArgs(root), m \in FieldArgs :
        LET res == update_person_metadata(World, p, m.notes, m.occupation,
                       m.birth_place, m.death_place, m.custom_facts)
        IN /\ history = <<>>
           /\ Write(res, FALSE)
           /\ ret' = [op |-> "update_person_metadata", raised |-> FALSE, args |-> m,
                      r |-> [success |-> res.found, record |-> res.r]]
           /\ history' = IF res.found /\ res.r.changes # <<>>
                         THEN Append(history, res.r) ELSE history

\* the undo_last_change tool: the last change record is popped and given to
\* apply_undo
UndoLastChange ==
    /\ history # <<>>
    /\ ~IsTransactionRecord(history[Len(history)])
    /\ LET last_change == history[Len(history)]
           res == apply_undo(World, last_change)
       IN /\ Becomes(res.w)
          /\ history' = SubSeq(history, 1, Len(history) - 1)
          /\ ret' = [op |-> "undo_last_change", raised |-> FALSE, record |-> last_change,
                     before |-> root, r |-> res.ok]
          /\ UNCHANGED <<snap, txCount, steps>>

\* upload_gedcom with a file that parses: current_gedcom_parser becomes a
\* new parser; no other global is assigned
UploadGedcom ==
    \E document \in UploadDocs :
        /\ root' = document
        /\ built' = FALSE
        /\ ghosts' = {}
        /\ ret' = [op |-> "upload_gedcom", raised |-> FALSE, document |-> document]
        /\ UNCHANGED <<active, ops, history, log, snap, txCount, steps>>

\* attach_source_citation on the birth of an individual of the document,
\* with one of the sources of the document
CiteSource ==
    \E p \in PersonArgs(root), s \in CitedSources :
        LET res == attach_source_citation(World, p, s, "BIRT", None, 3, None)
        IN /\ Write(res, TRUE)
           /\ ret' = [op |-> "attach_source_citation", raised |-> FALSE, r |-> res.r]
           /\ UNCHANGED history

\* a check_date_consistency call
CheckDateConsistency ==
    \E b \in DateArgs, d \in DateArgs, p \in DateArgs :
        /\ ret' = [op |-> "check_date_consistency", raised |-> FALSE,
                   birth_date |-> b, death_date |-> d, parent_birth_date |-> p,
                   r |-> check_date_consistency(b, d, p)]
        /\ UNCHANGED <<root, built, ghosts, active, ops, history, log, snap, txCount, steps>>

\* a find_individual_by_name call
FindIndividualByName ==
    \E name \in NameArgs :
        /\ ret' = [op |-> "find_individual_by_name", raised |-> FALSE, name |-> name,
                   r |-> find_individual_by_name(root, name)]
        /\ UNCHANGED <<root, built, ghosts, active, ops, history, log, snap, txCount, steps>>

\* a find_potential_duplicates call
FindPotentialDuplicates ==
    \E candidate \in Candidates, threshold \in Thresholds :
        /\ ret' = [op |-> "find_potential_duplicates", raised |-> FALSE,
                   candidate |-> candidate, threshold |-> threshold,
                   r |-> find_potential_duplicates(World, candidate, threshold)]
        /\ UNCHANGED <<root, built, ghosts, active, ops, history, log, snap, txCount, steps>>

\* a build_ancestor_tree call with the id of an individual of the document
BuildAncestorTree ==
    \E p \in PersonArgs(root), d \in 0..MaxDepth :
        LET res == build_ancestor_tree(World, p, d)
        IN /\ Becomes(res.w)
           /\ ret' = [op |-> "build_ancestor_tree", raised |-> FALSE, person_id |-> p,
                      max_depth |-> d, found |-> res.found, r |-> res.r]
           /\ UNCHANGED <<history, snap, txCount, steps>>

\* a build_descendant_tree call with the id of an individual of the document
BuildDescendantTree ==
    \E p \in PersonArgs(root), d \in 0..MaxDepth :
        LET res == build_descendant_tree(World, p, d)
        IN /\ Becomes(res.w)
           /\ ret' = [op |-> "build_descendant_tree", raised |-> FALSE, person_id |-> p,
                      max_depth |-> d, found |-> res.found, r |-> res.r]
           /\ UNCHANGED <<history, snap, txCount, steps>>

\* a build_bidirectional_tree call with the id of an individual of the
\* document
BuildBidirectionalTree ==
    \E p \in PersonArgs(root), a \in 0..MaxDepth, d \in 0..MaxDepth :
        LET res == build_bidirectional_tree(World, p, a, d)
        IN /\ Becomes(res.w)
           /\ ret' = [op |-> "build_bidirectional_tree", raised |-> FALSE, person_id |-> p,
                      ancestor_depth |-> a, descendant_depth |-> d,
                      found |-> res.found, r |-> res.r]
           /\ UNCHANGED <<history, snap, txCount, steps>>

\* the transaction protocol around the writes that record an operation
NextTx ==
    \/ BeginTransaction
    \/ CommitTransaction
    \/ RollbackTransaction
    \/ AddIndividual
    \/ CreateSourceRecord

SpecTx == Init /\ [][NextTx]_vars

\* transactions of individuals, sources and citations, and their undo, as
\* made by a client that follows the transaction protocol, records its
\* sources and citations inside transactions and whose calls succeed
NextUndo ==
    \/ (active = 0 /\ BeginTransaction)
    \/ (active # 0 /\ CommitTransaction)
    \/ (AddIndividual /\ ret'.r.success)
    \/ (active # 0 /\ CreateSourceRecord)
    \/ (active # 0 /\ AttachSourceCitation /\ ret'.r.success)
    \/ UndoTransaction

SpecUndo == Init /\ [][NextUndo]_vars

\* parent links inside and outside a transaction
NextLink ==
    \/ BeginTransaction
    \/ AddIndividual
    \/ AddFamilyRelationship
    \/ GetParents

SpecLink == Init /\ [][NextLink]_vars

\* the writes made inside a transaction
NextGroup ==
    \/ BeginTransaction
    \/ CommitTransaction
    \/ AddIndividual
    \/ CreateFamilyRecord
    \/ AddFamilyRelationship
    \/ AddSpouseRelationship
    \/ UpdatePersonMetadata

SpecGroup == Init /\ [][NextGroup]_vars

\* transactions of family links and citations, and their undo, as made by a
\* client that follows the transaction protocol
NextFamUndo ==
    \/ (active = 0 /\ BeginTransaction)
    \/ (active # 0 /\ CommitTransaction)
    \/ AttachSourceCitation
    \/ AddChildToFamily
    \/ AddFamilyRelationship
    \/ AddSpouseRelationship
    \/ UndoTransaction

SpecFamUndo == Init /\ [][NextFamUndo]_vars

\* persons added and linked to parents, and the circular-ancestry check asked
\* directly
NextCircular ==
    \/ AddPerson
    \/ LinkParentChild
    \/ DetectCircularAncestry

SpecCircular == InitKin /\ [][NextCircular]_vars

\* parent links requested with the circular-ancestry check enabled
NextAcyclic ==
    \/ (LinkParentChild /\ ret'.check_circular)

SpecAcyclic == InitKin /\ [][NextAcyclic]_vars

\* the family operations of the mutation engine on the documents of InitKin
NextKin ==
    \/ AddPerson
    \/ CreateFamilyRecord
    \/ AddChildToFamily
    \/ LinkParentChild
    \/ AddSpouseRelationship

SpecKin == InitKin /\ [][NextKin]_vars

\* records created by a client that follows the transaction protocol, and
\* the undo of its committed transactions: individuals are added inside and
\* outside transactions, families (created without spouses) and sources
\* inside them, and transactions are undone while none is open
NextIds ==
    \/ (active = 0 /\ BeginTransaction)
    \/ (active # 0 /\ CommitTransaction)
    \/ (AddIndividual /\ ret'.r.success)
    \/ (active # 0 /\ CreateFamilyRecord /\ root'[Len(root')].ch = <<>>)
    \/ (active # 0 /\ CreateSourceRecord)
    \/ (active = 0 /\ UndoTransaction)

SpecIds == Init /\ [][NextIds]_vars

\* the read queries on the documents of InitQuery
NextQuery ==
    \/ FindIndividual
    \/ QueryParents
    \/ QuerySiblings
    \/ AddChildToFamily

SpecQuery == InitQuery /\ [][NextQuery]_vars

\* parents asked for by a client that adds individuals inside transactions
\* and, between transactions, links them (with the circular-ancestry check),
\* asks for parents and undoes transactions
NextStale ==
    \/ (active = 0 /\ BeginTransaction)
    \/ (active # 0 /\ CommitTransaction)
    \/ (active # 0 /\ AddPerson)
    \/ (active = 0 /\ LinkParentChild /\ ret'.check_circular)
    \/ (active = 0 /\ QueryParents)
    \/ (active = 0 /\ UndoTransaction)

SpecStale == InitKin /\ [][NextStale]_vars

\* persons of every gender linked as spouses and asked for their spouses
NextSpouse ==
    \/ AddPerson
    \/ LinkSpouses
    \/ QuerySpouses

SpecSpouse == InitKin /\ [][NextSpouse]_vars

\* field updates, each undone before the next
NextFields ==
    \/ UpdateFields
    \/ UndoLastChange

SpecFields == InitFields /\ [][NextFields]_vars

\* updates of the occupation, their undo and transactions of one added
\* individual, with uploads in between
NextUpload ==
    \/ (UpdateFields /\ ret'.args.birth_place = None /\ ret'.args.death_place = None
                     /\ ret'.args.custom_facts = <<>> /\ ret'.args.notes = None
                     /\ ret'.r.success)
    \/ UndoLastChange
    \/ (active = 0 /\ BeginTransaction)
    \/ (active # 0 /\ ops = <<>> /\ AddIndividual)
    \/ UploadGedcom

SpecUpload == InitFields /\ [][NextUpload]_vars

\* citations attached inside transactions, and the undo of the committed
\* transactions
NextCite ==
    \/ (active = 0 /\ BeginTransaction)
    \/ (active # 0 /\ CommitTransaction)
    \/ (active # 0 /\ CiteSource)
    \/ (active = 0 /\ UndoTransaction)

SpecCite == InitCite /\ [][NextCite]_vars

\* families made of a record and the children added to it, and the queries
\* of parents and children
NextChildren ==
    \/ CreateFamilyRecord
    \/ AddChildToFamily
    \/ QueryChildren
    \/ QueryParents

SpecChildren == InitKin /\ [][NextChildren]_vars

\* families made and given children inside transactions, the transactions
\* undone, and detect_circular_ancestry asked in between
NextStaleAncestry ==
    \/ (active = 0 /\ BeginTransaction)
    \/ (active # 0 /\ CommitTransaction)
    \/ (active # 0 /\ AddSpouseRelationship /\ ret'.r.success)
    \/ (active # 0 /\ AddChildToFamily /\ ret'.r.success)
    \/ (active = 0 /\ DetectCircularAncestry)
    \/ (active = 0 /\ UndoTransaction)

SpecStaleAncestry == Init /\ [][NextStaleAncestry]_vars

\* the date checks, asked one after another
SpecDates == Init /\ [][CheckDateConsistency]_vars

\* the name lookup on fixed documents
SpecNames == InitNames /\ [][FindIndividualByName]_vars

\* the duplicate scorer on fixed documents
SpecDuplicates == InitDuplicates /\ [][FindPotentialDuplicates]_vars

\* the tree builders, called on the documents of TreeDocs
NextTree ==
    \/ BuildAncestorTree
    \/ BuildDescendantTree
    \/ BuildBidirectionalTree

SpecTree == InitTree /\ [][NextTree]_vars

(***************************************************************************)
(* Properties.                                                             *)
(***************************************************************************)
OpenTransactions == {t \in 1..Len(snap) : snap[t].status = "open"}

\* C1: a begin_transaction made while a transaction is active raises, a
\* commit_transaction or rollback_transaction made while none is active
\* raises, each leaves the active transaction and the operation buffer as
\* they were, and at most one transaction is open at any time.
C1_ProtocolViolationsRejected ==
    /\ [](/\ Cardinality(OpenTransactions) <= 1
          /\ \A t \in OpenTransactions : active = t)
    /\ [][/\ (BeginTransaction /\ active # 0)
              => (ret'.raised /\ active' = active /\ ops' = ops)
          /\ ((CommitTransaction \/ RollbackTransaction) /\ active = 0)
              => (ret'.raised /\ active' = active /\ ops' = ops /\ history' = history)
         ]_vars

\* a nested begin_transaction was refused while operations were buffered
C1_Witness ==
    /\ ret.op = "begin_transaction"
    /\ ret.raised
    /\ active # 0
    /\ ops # <<>>

\* the operations recorded in transaction t, in recording order
RecordedIn(t) ==
    LET In(e) == e.tx = t
        sel == SelectSeq(log, In)
    IN [i \in 1..Len(sel) |-> sel[i].op]

Range(f) == {f[i] : i \in DOMAIN f}

\* C2: the record commit_transaction returns lists exactly the operations
\* recorded since the matching begin_transaction, in recording order, with
\* operation_count their number; after the commit no transaction is active
\* and the buffer is empty; every committed record holds the operations of
\* its own transaction only.
C2_CommitPackagesBuffer ==
    /\ (ret.op = "commit_transaction" /\ ~ret.raised)
        => /\ ret.record.operations = RecordedIn(ret.record.id)
           /\ ret.record.operation_count = Len(ret.record.operations)
           /\ active = 0
           /\ ops = <<>>
    /\ \A i \in 1..Len(history) :
          IsTransactionRecord(history[i])
          => /\ history[i].operations = RecordedIn(history[i].id)
             /\ \A j \in 1..Len(history) :
                   i # j => Range(history[i].operations) \cap Range(history[j].operations) = {}

\* a second transaction was committed with two operations after a first
\* one with operations of its own
C2_Witness ==
    /\ ret.op = "commit_transaction"
    /\ ~ret.raised
    /\ ret.record.operation_count = 2
    /\ Len(history) = 2
    /\ history[1].operation_count >= 1

\* C3: rollback_transaction leaves no transaction active and an empty
\* buffer and produces no record; the begin_transaction that follows
\* succeeds; no operation of a rolled-back transaction is in a record
\* committed later.
C3_RollbackDiscards ==
    /\ [](/\ (ret.op = "rollback_transaction" /\ ~ret.raised)
              => (active = 0 /\ ops = <<>>)
          /\ \A i \in 1..Len(history) :
                /\ snap[history[i].id].status = "committed"
                /\ \A j \in 1..Len(log) :
                      snap[log[j].tx].status = "rolled back"
                      => log[j].op \notin Range(history[i].operations))
    /\ [][/\ RollbackTransaction => history' = history
          /\ (BeginTransaction /\ ret.op = "rollback_transaction" /\ ~ret.raised)
              => (~ret'.raised /\ active' # 0)
         ]_vars

\* a transaction was committed with an operation after one that had
\* recorded an operation was rolled back
C3_Witness ==
    /\ ret.op = "commit_transaction"
    /\ ~ret.raised
    /\ ret.record.operation_count >= 1
    /\ \E t \in 1..Len(snap) :
          /\ t < ret.record.id
          /\ snap[t].status = "rolled back"
          /\ RecordedIn(t) # <<>>

\* the corrected birth and death dates of a profile yield an ERROR-level
\* consistency finding
YieldsError(a) ==
    HasError(check_date_consistency(validate_and_correct_date(a.birth_date).date,
                                    validate_and_correct_date(a.death_date).date,
                                    None))

\* C9: an add_individual call whose birth and death dates yield an
\* ERROR-level consistency finding (death year before birth year) returns
\* success false, creates no individual, leaves the next generated id as it
\* was and records no operation in the open transaction.
C9_InconsistentDatesRejected ==
    [][(AddIndividual /\ YieldsError(ret'.args))
        => /\ ~ret'.r.success
           /\ root' = root
           /\ generate_new_individual_id(root') = generate_new_individual_id(root)
           /\ ops' = ops
           /\ log' = log
      ]_vars

\* the rejected call was made inside a transaction that had already
\* recorded an operation
C9_Witness ==
    /\ ret.op = "add_individual"
    /\ YieldsError(ret.args)
    /\ extract_year(ret.args.death_date) < extract_year(ret.args.birth_date)
    /\ ~ret.r.success
    /\ active # 0
    /\ ops # <<>>

\* C10: whenever add_family_relationship returns success false, the
\* document and the open transaction's operation buffer are exactly as
\* before the call.
C10_FailureLeavesStoreUnchanged ==
    [][(AddFamilyRelationship /\ ~ret'.r.success)
        => (root' = root /\ ops' = ops)
      ]_vars

\* both parent slots of the child's family were occupied; the refused call
\* was made inside a transaction that had already recorded an operation
C10_Witness ==
    /\ ret.op = "add_family_relationship"
    /\ ~ret.r.success
    /\ ret.r.error = "full"
    /\ active # 0
    /\ ops # <<>>

\* the operations of a record undone one by one from the last recorded to
\* the first
RECURSIVE LastToFirst(_, _, _)
LastToFirst(u, operations, k) ==
    IF k = 0 THEN u
    ELSE LastToFirst(undo_operation(u, operations[k]), operations, k - 1)

UndoApplied == ret.op = "undo_transaction" /\ ret.applied

\* the undo was applied to the document as its transaction committed it,
\* and the recording writes were the only changes made while the
\* transaction was open
UndoOfCommitted ==
    /\ UndoApplied
    /\ ret.before = snap[ret.record.id].commit
    /\ ~snap[ret.record.id].other

AddThenCite(operations) ==
    /\ Len(operations) = 2
    /\ operations[1].type = "add_individual"
    /\ operations[2].type = "attach_source"
    /\ operations[2].person_id = operations[1].person_id

\* C4: apply_transaction_undo reverses the operations from the last
\* recorded to the first; undoing a committed transaction that added an
\* individual and then attached a citation to it removes the citation, then
\* the individual, and reports no error.
C4_UndoIsLifo ==
    /\ [][(UndoTransaction /\ ret'.applied)
           => LET u == LastToFirst([w |-> World, errors |-> <<>>, operations_undone |-> 0],
                                   ret'.record.operations, Len(ret'.record.operations))
              IN /\ root' = u.w.root
                 /\ ret'.r.errors = u.errors
                 /\ ret'.r.operations_undone = u.operations_undone
         ]_vars
    /\ []((UndoOfCommitted /\ AddThenCite(ret.record.operations))
           => /\ ret.r.errors = <<>>
              /\ ret.r.success
              /\ ret.r.operations_undone = 2
              /\ find_individual_by_id(root, ret.record.operations[1].person_id) = 0)

C4_Witness ==
    /\ UndoOfCommitted
    /\ AddThenCite(ret.record.operations)
    /\ ret.r.operations_undone = 2

Individuals(doc) == {i \in 1..Len(doc) : IsIndividual(doc[i])}

\* C5: begin_transaction, a successful add_individual, commit_transaction,
\* then the undo of the returned record: the undo reports success with
\* operations_undone >= 1, the id of the added individual resolves to
\* nothing, and there are as many individuals as before the transaction.
C5_UndoRemovesAddedIndividual ==
    (/\ UndoOfCommitted
     /\ Len(ret.record.operations) = 1
     /\ ret.record.operations[1].type = "add_individual")
    => /\ ret.r.success
       /\ ret.r.operations_undone >= 1
       /\ find_individual_by_id(root, ret.record.operations[1].person_id) = 0
       /\ Cardinality(Individuals(root))
            = Cardinality(Individuals(snap[ret.record.id].begin))

\* the undone transaction started from a document that had individuals
C5_Witness ==
    /\ UndoOfCommitted
    /\ Len(ret.record.operations) = 1
    /\ ret.record.operations[1].type = "add_individual"
    /\ Individuals(snap[ret.record.id].begin) # {}
    /\ Cardinality(Individuals(ret.before)) = Cardinality(Individuals(root)) + 1

\* the record or individual an operation needs in order to be reversed is
\* in the document
TargetPresent(doc, operation) ==
    CASE operation.type = "add_individual" ->
            find_individual_by_id(doc, operation.person_id) # 0
      [] operation.type = "add_source" ->
            FindSourceIdx(doc, operation.source_id) # 0
      [] operation.type = "attach_source" ->
            find_individual_by_id(doc, operation.person_id) # 0
      [] OTHER -> TRUE

Removes(operation) == operation.type \in {"add_individual", "add_source"}

C6_UndoRestoresDocument ==
    UndoOfCommitted => root = snap[ret.record.id].begin

\* C7: each successful add_individual, create_source_record,
\* attach_source_citation, create_family_record, add_family_relationship,
\* add_spouse_relationship and update_person_metadata made while a
\* transaction is open adds at least one operation to the buffer the commit
\* packages.
C7_EveryWriteRecorded ==
    [][(/\ \/ AddIndividual
           \/ CreateSourceRecord
           \/ AttachSourceCitation
           \/ CreateFamilyRecord
           \/ AddFamilyRelationship
           \/ AddSpouseRelationship
           \/ UpdatePersonMetadata
        /\ active # 0
        /\ ret'.r.success)
        => Len(ops') > Len(ops)
      ]_vars

\* C12: detect_circular_ancestry(X, X) returns true for any X, written with
\* or without its @ delimiters, present in the document or not.
C12_SelfIsCircular ==
    (ret.op = "detect_circular_ancestry" /\ ret.person_id = ret.potential_parent_id)
    => ret.r

\* the values of the children with one of the tags
TagValues(e, tags) == {e.ch[k].val : k \in {j \in 1..Len(e.ch) : e.ch[j].tag \in tags}}

\* the parents of x in a document: the HUSB and WIFE of the families x names
\* by FAMC
ParentsOf(doc, x) ==
    LET famc == UNION {TagValues(doc[i], {"FAMC"}) :
                         i \in {j \in 1..Len(doc) : IsIndividual(doc[j]) /\ doc[j].ptr = x}}
    IN UNION {TagValues(doc[f], {"HUSB", "WIFE"}) :
                f \in {j \in 1..Len(doc) : IsFamily(doc[j]) /\ doc[j].ptr \in famc}}

RECURSIVE AncestorsFrom(_, _, _)
AncestorsFrom(doc, frontier, seen) ==
    IF frontier \subseteq seen THEN seen
    ELSE AncestorsFrom(doc, UNION {ParentsOf(doc, x) : x \in frontier \ seen},
                       seen \cup frontier)

AncestorsOf(doc, x) == AncestorsFrom(doc, ParentsOf(doc, x), {})

\* C11: starting from an acyclic document, after add_family_relationship
\* calls made with check_circular enabled no individual is its own ancestor.
C11_GraphStaysAcyclic ==
    \A i \in 1..Len(root) :
        IsIndividual(root[i]) => root[i].ptr \notin AncestorsOf(root, root[i].ptr)

\* the link_parent_child call this step made returned success
LinkSucceeded == ret'.op = "link_parent_child" /\ ret'.r.success

\* the ids a family element names as HUSB, WIFE or CHIL
Members(doc) ==
    UNION {TagValues(doc[f], {"HUSB", "WIFE", "CHIL"}) :
             f \in {j \in 1..Len(doc) : IsFamily(doc[j])}}

\* both individuals exist, are distinct, carry no family link and are named
\* by no family
UnrelatedPair(doc, a, b) ==
    LET i == find_individual_by_id(doc, a)
        j == find_individual_by_id(doc, b)
    IN /\ i # 0 /\ j # 0 /\ i # j
       /\ TagValues(doc[i], {"FAMC", "FAMS"}) = {}
       /\ TagValues(doc[j], {"FAMC", "FAMS"}) = {}
       /\ Members(doc) \cap {doc[i].ptr, doc[j].ptr} = {}

\* C13: for an unrelated pair P, C detect_circular_ancestry(C, P) is false;
\* after a successful add_family_relationship(parent = P, child = C)
\* detect_circular_ancestry(P, C) is true and the reverse link is refused.
C13_ReverseLinkRefused ==
    [][(LinkSucceeded /\ UnrelatedPair(root, ret'.parent_id, ret'.child_id))
       => /\ ~detect_circular_ancestry(World, ret'.child_id, ret'.parent_id)
          /\ detect_circular_ancestry(World', ret'.parent_id, ret'.child_id)
          /\ ~add_family_relationship(World', ret'.child_id, ret'.parent_id, TRUE).r.success]_vars

\* C14: after a successful add_family_relationship(parent, child), whatever
\* the parent's gender and whether the child's family existed or was created,
\* get_parents(child) includes the parent.
C14_ParentListed ==
    [][LinkSucceeded
       => LET res == get_parents(World', ret'.child_id)
          IN /\ res.found
             /\ \E k \in 1..Len(res.r) : res.r[k] = NormalizeId(ret'.parent_id)]_vars

\* C15: whenever add_family_relationship returns success, the parent exists
\* in the document and carries a FAMS link to the family_id returned.
C15_ParentCarriesFams ==
    [][LinkSucceeded
       => LET p == find_individual_by_id(root', ret'.parent_id)
          IN /\ p # 0
             /\ ret'.r.family_id \in TagValues(root'[p], {"FAMS"})]_vars

\* the positions of the families / of the individuals of a document
FamilyIdx(doc) == {j \in 1..Len(doc) : IsFamily(doc[j])}

IndividualIdx(doc) == {j \in 1..Len(doc) : IsIndividual(doc[j])}

\* C16: a family F lists CHIL c if and only if individual c exists and
\* carries FAMC F, after any sequence of mutation-engine operations on a
\* consistent document.
C16_ChildEdgesReciprocal ==
    /\ \A f \in FamilyIdx(root) : \A c \in TagValues(root[f], {"CHIL"}) :
          \E i \in IndividualIdx(root) :
              root[i].ptr = c /\ root[f].ptr \in TagValues(root[i], {"FAMC"})
    /\ \A i \in IndividualIdx(root) : \A fid \in TagValues(root[i], {"FAMC"}) :
          \E f \in FamilyIdx(root) :
              root[f].ptr = fid /\ root[i].ptr \in TagValues(root[f], {"CHIL"})

\* the number of children of e with the tag
TagCount(e, tag) == Cardinality({k \in 1..Len(e.ch) : e.ch[k].tag = tag})

\* C17: after any sequence of create_family_record, add_family_relationship
\* and add_spouse_relationship calls every family has at most one HUSB and at
\* most one WIFE: a parent is never added to a slot that is occupied.
C17_OneHusbandOneWife ==
    \A f \in FamilyIdx(root) :
        TagCount(root[f], "HUSB") <= 1 /\ TagCount(root[f], "WIFE") <= 1

\* add_family_relationship has filled the second slot of an existing family
C17_Witness ==
    /\ ret.op = "link_parent_child" /\ ret.r.success
    /\ \E f \in FamilyIdx(root) :
          /\ root[f].ptr = ret.r.family_id
          /\ TagCount(root[f], "HUSB") = 1 /\ TagCount(root[f], "WIFE") = 1
          /\ root[f].ch[Len(root[f].ch)].tag \in {"HUSB", "WIFE"}
          /\ root[f].ch[Len(root[f].ch)].val = NormalizeId(ret.parent_id)

\* C20: from a document where every FAMC and FAMS names an existing family,
\* after any sequence of add_individual, create_family_record,
\* add_child_to_family, add_family_relationship and add_spouse_relationship
\* every FAMC and FAMS still names an existing family.
C20_FamilyLinksResolve ==
    \A i \in IndividualIdx(root) :
        TagValues(root[i], {"FAMC", "FAMS"}) \subseteq {root[f].ptr : f \in FamilyIdx(root)}

\* a linking operation has succeeded and some individual carries a FAMC and a
\* FAMS link that name two families
C20_Witness ==
    /\ ret.op \in {"add_child_to_family", "link_parent_child", "add_spouse_relationship"}
    /\ ret.r.success
    /\ \E i \in IndividualIdx(root) :
          /\ TagValues(root[i], {"FAMC"}) # {}
          /\ TagValues(root[i], {"FAMS"}) # {}
          /\ Cardinality(TagValues(root[i], {"FAMC", "FAMS"})) >= 2

\* the pointers of the top-level elements with the tag
Pointers(doc, tag) == {doc[i].ptr : i \in {j \in 1..Len(doc) : doc[j].tag = tag}}

RecordTags == {"INDI", "FAM", "SOUR"}

\* the tag of the record a creating call adds
CreatedTag(op) ==
    CASE op = "add_individual" -> "INDI"
      [] op = "create_family_record" -> "FAM"
      [] op = "create_source_record" -> "SOUR"
      [] OTHER -> "none"

PointersUnique ==
    \A i, j \in 1..Len(root) :
        (i # j /\ root[i].tag = root[j].tag /\ root[i].tag \in RecordTags)
            => root[i].ptr # root[j].ptr

\* the id a successful creating call returned was the pointer of no record
\* of its type when the call was made
GeneratedIdFresh ==
    (CreatedTag(ret'.op) \in RecordTags /\ ret'.r.success)
        => /\ ret'.r.id \notin Pointers(root, CreatedTag(ret'.op))
           /\ ret'.r.id \in Pointers(root', CreatedTag(ret'.op))

RecordedAdds == {k \in 1..Len(log) : log[k].op.type = "add_individual"}

\* C19: the ids add_individual generates are strictly increasing in call
\* order within a session, undos included: an id freed by an undo is never
\* generated again.
C19_IdsIncrease ==
    \A i, j \in RecordedAdds :
        i < j => log[i].op.person_id.n < log[j].op.person_id.n

\* C21: for every individual P of the document find_individual(P.pointer)
\* returns P, and so does the pointer written without its @ delimiters.
C21_IdRoundTrip ==
    ret.op = "find_individual"
        => /\ ret.r # 0
           /\ IsIndividual(root[ret.r])
           /\ root[ret.r].ptr = NormalizeId(ret.identifier)

\* the values a sequence holds
Values(q) == {q[k] : k \in 1..Len(q)}

\* the individual of the document a query named, 0 when there is none
Asked == find_individual_by_id(root, ret.identifier)

\* the families of the document that individual i links by FAMC and that
\* list i as CHIL
ChildFamilies(doc, i) ==
    {f \in FamilyIdx(doc) : /\ doc[f].ptr \in TagValues(doc[i], {"FAMC"})
                            /\ doc[i].ptr \in TagValues(doc[f], {"CHIL"})}

\* the individuals of the document in the HUSB and WIFE slots of family f
Occupants(doc, f) == TagValues(doc[f], {"HUSB", "WIFE"}) \cap Pointers(doc, "INDI")

\* C22: for every individual P with a FAMC-linked family F in which P appears
\* as CHIL, get_parents(P) returns exactly the individuals in the HUSB and
\* WIFE slots of F, none missing and none extra.
C22_ParentsOfFamily ==
    (ret.op = "get_parents" /\ ret.found)
        => \A f \in ChildFamilies(root, Asked) : Values(ret.r) = Occupants(root, f)

\* C23: get_siblings(P) never contains P itself and never contains the same
\* individual twice, also when P's parents share several families or P is
\* listed as CHIL more than once.
C23_SiblingsOnceWithoutSelf ==
    (ret.op = "get_siblings" /\ ret.found)
        => /\ root[Asked].ptr \notin Values(ret.r)
           /\ Cardinality(Values(ret.r)) = Len(ret.r)

\* get_siblings has answered for a person listed as CHIL twice in a family
\* whose parents share a second family with a child of both families
C23_Witness ==
    /\ ret.op = "get_siblings" /\ ret.found /\ ret.r # <<>>
    /\ \E f \in FamilyIdx(root) :
          /\ Cardinality({k \in 1..Len(root[f].ch) :
                root[f].ch[k].tag = "CHIL" /\ root[f].ch[k].val = root[Asked].ptr}) = 2
          /\ \E g \in FamilyIdx(root) \ {f} :
                /\ TagValues(root[g], {"HUSB", "WIFE"}) = TagValues(root[f], {"HUSB", "WIFE"})
                /\ TagValues(root[g], {"CHIL"}) \cap TagValues(root[f], {"CHIL"}) # {}

\* the answer of get_parents for the individual the last query named
ParentsOfAsked == get_parents(World, ret.identifier).r

\* C24: for every resolvable individual P, get_siblings(P) is empty if and
\* only if P has no parents.
C24_EmptyIffNoParents ==
    (ret.op = "get_siblings" /\ ret.found)
        => (ret.r = <<>> <=> ParentsOfAsked = <<>>)

\* C24 as amended: for every resolvable individual P with no parents
\* get_siblings(P) is empty (an individual with parents may have no sibling
\* either).
C24_NoParentsNoSiblings ==
    (ret.op = "get_siblings" /\ ret.found /\ ParentsOfAsked = <<>>)
        => ret.r = <<>>

\* get_siblings has answered for a person without parents whose family lists
\* another child
C24_Witness ==
    /\ ret.op = "get_siblings" /\ ret.found /\ ParentsOfAsked = <<>>
    /\ \E f \in ChildFamilies(root, Asked) :
          (TagValues(root[f], {"CHIL"}) \cap Pointers(root, "INDI")) \ {root[Asked].ptr} # {}

\* C25: after a successful add_spouse_relationship(A, B), whatever the
\* genders of A and B, get_spouses(A) includes B and get_spouses(B)
\* includes A.
C25_SpousesListEachOther ==
    [][(ret'.op = "link_spouses" /\ ret'.r.success)
       => /\ NormalizeId(ret'.spouse2_id) \in Values(get_spouses(World', ret'.spouse1_id).r)
          /\ NormalizeId(ret'.spouse1_id) \in Values(get_spouses(World', ret'.spouse2_id).r)]_vars


(***************************************************************************)
(* The trees.                                                              *)
(***************************************************************************)
\* the nodes a node carries under the key, none when it has not the key
Under(node, key) == IF key \in DOMAIN node THEN node[key] ELSE <<>>

\* the larger of two numbers
Larger(a, b) == IF a >= b THEN a ELSE b

\* the number of levels below the node
RECURSIVE Levels(_)
Levels(node) ==
    LET RECURSIVE Deepest(_)
        Deepest(nodes) ==
            IF nodes = <<>> THEN 0
            ELSE Larger(1 + Levels(Head(nodes)), Deepest(Tail(nodes)))
    IN Deepest(Under(node, "children"))

\* the deepest of the nodes of a list, the list being one level down
RECURSIVE LevelsOf(_)
LevelsOf(nodes) ==
    IF nodes = <<>> THEN 0 ELSE Larger(1 + Levels(Head(nodes)), LevelsOf(Tail(nodes)))

\* some node of the tree carries an empty children array
RECURSIVE HasEmptyChildren(_)
HasEmptyChildren(node) ==
    \/ ("children" \in DOMAIN node /\ node.children = <<>>)
    \/ \E key \in {"children", "ancestors", "descendants"} :
          \E k \in 1..Len(Under(node, key)) : HasEmptyChildren(Under(node, key)[k])

TreeBuilt ==
    /\ ret.op \in {"build_ancestor_tree", "build_descendant_tree", "build_bidirectional_tree"}
    /\ ret.found

\* C26: no tree of build_ancestor_tree, build_descendant_tree or
\* build_bidirectional_tree, whatever the depth bound, has a node with an
\* empty children array: a node with nothing shown below it has no
\* children key.
C26_LeavesHaveNoChildrenKey == TreeBuilt => ~HasEmptyChildren(ret.r)


\* C27: every tree respects its depth bound d >= 0 (the builders end on
\* every document, one with a cycle of parent links included):
\* build_ancestor_tree and build_descendant_tree return no node more than
\* max_depth levels below the root, build_bidirectional_tree no ancestor more
\* than ancestor_depth and no descendant more than descendant_depth
\* generations away from the root.
C27_DepthBoundRespected ==
    TreeBuilt =>
        IF ret.op = "build_bidirectional_tree"
        THEN /\ LevelsOf(Under(ret.r, "ancestors")) <= ret.ancestor_depth
             /\ LevelsOf(Under(ret.r, "descendants")) <= ret.descendant_depth
        ELSE Levels(ret.r) <= ret.max_depth


(***************************************************************************)
(* Field-level undo.                                                       *)
(***************************************************************************)
\* C28: update_person_metadata followed by apply_undo of the change record
\* it returned leaves the individual, and the document, exactly as before
\* the update, whatever arguments were given.
C28_FieldUndoRoundTrip ==
    [][(ret'.op = "update_person_metadata" /\ ret'.r.success)
       => apply_undo(World', ret'.r.record).w.root = root]_vars


(***************************************************************************)
(* Undo of a transaction: the account it gives, and the citations.         *)
(***************************************************************************)
\* C29: apply_transaction_undo accounts for every operation of the record:
\* operations_undone plus the number of errors is the number of operations,
\* and a result with success true has undone every one of them.
C29_EveryOperationAccounted ==
    (ret.op = "undo_transaction" /\ ret.applied)
    => /\ ret.r.operations_undone + Len(ret.r.errors) = Len(ret.record.operations)
       /\ ret.r.success => ret.r.operations_undone = Len(ret.record.operations)


\* the children of the event of the person, none when the person or the
\* event is not there
EventChildrenOf(doc, person_id, event_type) ==
    LET i == find_individual_by_id(doc, person_id)
        e == ChildIdx(doc[i], event_type)
    IN IF i = 0 THEN <<>> ELSE IF e = 0 THEN <<>> ELSE doc[i].ch[e].ch

\* the places in the list of a citation of the source
CitationsOf(children, source_id) ==
    {k \in 1..Len(children) : children[k].tag = "SOUR" /\ children[k].val = source_id}

\* the undo of a committed transaction of one attach_source operation whose
\* event carries a citation of the recorded source
UndoOfOneCitation ==
    /\ ret.op = "undo_transaction"
    /\ ret.applied
    /\ Len(ret.record.operations) = 1
    /\ ret.record.operations[1].type = "attach_source"
    /\ CitationsOf(EventChildrenOf(ret.before, ret.record.operations[1].person_id,
                                   ret.record.operations[1].event_type),
                   ret.record.operations[1].source_id) # {}

\* C30: the undo of an attach_source operation removes one citation of the
\* recorded source from the recorded event of the recorded person and
\* nothing else: the other citations of the event stay, also those the
\* event carried before the transaction.
C30_UndoRemovesTheCitation ==
    UndoOfOneCitation =>
        LET operation == ret.record.operations[1]
            i == find_individual_by_id(ret.before, operation.person_id)
            e == ChildIdx(ret.before[i], operation.event_type)
        IN \E k \in CitationsOf(ret.before[i].ch[e].ch, operation.source_id) :
              root = [ret.before EXCEPT ![i].ch[e].ch = RemoveAt(@, k)]


(***************************************************************************)
(* Children.                                                               *)
(***************************************************************************)
\* the families of the document that name the individual as HUSB or WIFE
SpouseFamilies(doc, i) ==
    {f \in FamilyIdx(doc) : doc[i].ptr \in TagValues(doc[f], {"HUSB", "WIFE"})}

\* the individuals of the document those families name as CHIL
ChildrenIn(doc, i) ==
    {c \in Pointers(doc, "INDI") :
        \E f \in SpouseFamilies(doc, i) : c \in TagValues(doc[f], {"CHIL"})}

\* C31: get_children(P) returns the CHIL members of every family in which P
\* is the HUSB or the WIFE, so the child added with add_child_to_family to a
\* family made by create_family_record with P as husband or wife is listed.
C31_ChildrenOfOwnFamilies ==
    (ret.op = "get_children" /\ ret.found)
    => Values(ret.r) = ChildrenIn(root, Asked)


\* the occupants of the HUSB and WIFE slots of the families the individual
\* names by FAMS, the individual left out
OtherOccupants(doc, i) ==
    {x \in Pointers(doc, "INDI") :
        /\ x # doc[i].ptr
        /\ \E f \in FamilyIdx(doc) :
              /\ doc[f].ptr \in TagValues(doc[i], {"FAMS"})
              /\ x \in TagValues(doc[f], {"HUSB", "WIFE"})}

\* C32: for an individual P whose gender is neither M nor F, get_spouses(P)
\* returns the occupants of the HUSB and WIFE slots of P's families other
\* than P: P is never in its own list, whichever slot it occupies.
C32_UnknownGenderSpouses ==
    (ret.op = "get_spouses" /\ ret.found /\ get_gender(root[Asked]) \notin {"M", "F"})
    => Values(ret.r) = OtherOccupants(root, Asked)


(***************************************************************************)
(* Circular ancestry: the answer and the closure.                          *)
(***************************************************************************)
\* the potential parent and the individuals of the document that are its
\* ancestors
SelfAndAncestors(doc, x) == {x} \cup (AncestorsOf(doc, x) \cap Pointers(doc, "INDI"))

\* a detect_circular_ancestry call whose two ids have their delimiters
DetectedNormalized ==
    /\ ret.op = "detect_circular_ancestry"
    /\ ret.person_id.at
    /\ ret.potential_parent_id.at

\* C33: for ids with their delimiters detect_circular_ancestry(child, parent)
\* returns true exactly when the child is the potential parent or one of its
\* ancestors, on every document, one with a cycle of parent links included.
C33_CircularIffInClosure ==
    DetectedNormalized
    => (ret.r <=> ret.person_id \in SelfAndAncestors(root, ret.potential_parent_id))

(***************************************************************************)
(* Date consistency.                                                       *)
(***************************************************************************)
HasWarning(warnings) == \E i \in 1..Len(warnings) : warnings[i].level = "WARNING"

\* both dates hold a year
BothYears(x, y) == extract_year(x) # NoYear /\ extract_year(y) # NoYear

\* the years from the first date to the second
YearsBetween(x, y) == extract_year(y) - extract_year(x)

\* C34: check_date_consistency reports an ERROR exactly when birth and death
\* year are both present and the death year is the smaller, or birth and
\* parent birth year are both present less than 10 years apart; a WARNING
\* exactly when the age at death exceeds 120 or the parent's age at the birth
\* exceeds 80; the values 10, 80 and 120 themselves give no finding.
C34_FindingsExact ==
    ret.op = "check_date_consistency"
    => /\ HasError(ret.r)
            <=> \/ (BothYears(ret.birth_date, ret.death_date)
                    /\ YearsBetween(ret.birth_date, ret.death_date) < 0)
                \/ (BothYears(ret.parent_birth_date, ret.birth_date)
                    /\ YearsBetween(ret.parent_birth_date, ret.birth_date) < 10)
       /\ HasWarning(ret.r)
            <=> \/ (BothYears(ret.birth_date, ret.death_date)
                    /\ YearsBetween(ret.birth_date, ret.death_date) > 120)
                \/ (BothYears(ret.parent_birth_date, ret.birth_date)
                    /\ YearsBetween(ret.parent_birth_date, ret.birth_date) > 80)

\* the score of the individual at position i of the document against the
\* candidate of the last call
ScoreOf(i) ==
    calculate_person_similarity(get_person_full_details(World, root[i].ptr), ret.candidate)

\* C35: find_potential_duplicates returns exactly the individuals of the
\* store whose score against the candidate is at least the threshold, each
\* once, in order of non-increasing score, each with the integer part of
\* score * 100 as its percentage.
C35_DuplicatesExactAndRanked ==
    ret.op = "find_potential_duplicates" =>
        /\ \A i \in IndividualIdx(root) :
               Cardinality({k \in 1..Len(ret.r) : ret.r[k].person.id = root[i].ptr})
                   = IF ScoreOf(i) >= ret.threshold THEN 1 ELSE 0
        /\ \A k \in 1..Len(ret.r) :
               \E i \in IndividualIdx(root) :
                   /\ ret.r[k].person.id = root[i].ptr
                   /\ ret.r[k].similarity = ScoreOf(i)
                   /\ ret.r[k].percentage * Weight(100) <= ScoreOf(i) * 100
                   /\ ScoreOf(i) * 100 < (ret.r[k].percentage + 1) * Weight(100)
        /\ \A k \in 1..(Len(ret.r) - 1) : ret.r[k].similarity >= ret.r[k + 1].similarity

\* a call that returns two matches of different scores that stood in the
\* other order in the document, one of them exactly at the threshold, and
\* leaves out an individual below it
C35_Witness ==
    /\ ret.op = "find_potential_duplicates"
    /\ Len(ret.r) = 2
    /\ ret.r[1].similarity > ret.r[2].similarity
    /\ ret.r[2].similarity = ret.threshold
    /\ ret.threshold > 0
    /\ \E i, j \in IndividualIdx(root) :
           /\ i < j
           /\ root[i].ptr = ret.r[2].person.id
           /\ root[j].ptr = ret.r[1].person.id
    /\ \E i \in IndividualIdx(root) : ScoreOf(i) < ret.threshold

\* the lowercased "first last" name of the individual at position i
LowerName(i) == LowerAll(FullName(get_name(root[i]).first, get_name(root[i]).last).words)

\* the individuals whose name equals the query of the last call, and those
\* whose name contains it
NamedExactly == {i \in IndividualIdx(root) : LowerName(i) = LowerAll(ret.name.words)}
NamedPartly == {i \in IndividualIdx(root) : InPlace(LowerAll(ret.name.words), LowerName(i))}

\* C36: when some individual's lowercased name equals the lowercased
\* query, find_individual_by_name returns the first such individual of the
\* document; only when none is equal does it return the first individual
\* whose name contains the query.
C36_ExactNameFirst ==
    ret.op = "find_individual_by_name" =>
        ret.r = IF NamedExactly # {} THEN FirstIdx(NamedExactly) ELSE FirstIdx(NamedPartly)

\* C37: after a successful upload the live document is the newly parsed
\* one, the change history holds no record made against the previous
\* document, and no transaction opened before the upload is still active
\* (so no undo after the upload applies an old record to the new document).
C37_UploadResetsState ==
    ret.op = "upload_gedcom" =>
        /\ root = ret.document
        /\ history = <<>>
        /\ active = 0
        /\ ops = <<>>

\* the individuals get_children and get_parents answer with, for the
\* individual with pointer p of the document
ChildrenAnswer(p) == Values(get_children(World, p).r)
ParentsAnswer(p) == Values(get_parents(World, p).r)

\* C38: after any sequence of add_individual, create_family_record,
\* add_child_to_family, add_family_relationship and add_spouse_relationship
\* on a consistent document, C is in get_children(P) if and only if P is in
\* get_parents(C), for all individuals P and C.
C38_ParentChildAgree ==
    \A p, c \in Pointers(root, "INDI") :
        c \in ChildrenAnswer(p) <=> p \in ParentsAnswer(c)

\* the records with the tag that the undo of the last call removed
RemovedBy(tag) == Pointers(ret.before, tag) \ Pointers(root, tag)

\* C39: after apply_transaction_undo has removed a family or an individual,
\* no remaining individual carries a FAMC or FAMS naming the removed family
\* and no remaining family carries a HUSB, WIFE or CHIL naming the removed
\* individual.
C39_NoDanglingLinks ==
    (ret.op = "undo_transaction" /\ ret.applied) =>
        /\ \A i \in IndividualIdx(root) :
               TagValues(root[i], {"FAMC", "FAMS"}) \cap RemovedBy("FAM") = {}
        /\ \A f \in FamilyIdx(root) :
               TagValues(root[f], {"HUSB", "WIFE", "CHIL"}) \cap RemovedBy("INDI") = {}

\* the calls of the transaction protocol
TransactionCalls == {"begin_transaction", "commit_transaction", "rollback_transaction"}

\* the transactions that were rolled back
RolledBack == {t \in 1..Len(snap) : snap[t].status = "rolled back"}

\* C40: begin_transaction, commit_transaction and rollback_transaction (and
\* record_operation, which the writes call) never change the document; a
\* rollback only forgets the buffered operations: the writes made in the
\* transaction stay in the document, and no transaction record of the change
\* history, then or later, belongs to the rolled-back transaction.
C40_TransactionCallsKeepDocument ==
    [][ /\ ret'.op \in TransactionCalls => root' = root
        /\ \A k \in 1..Len(ops) : record_operation(World, ops[k]).root = root
        /\ (ret'.op = "rollback_transaction" /\ ~ret'.raised) =>
               (active' = 0 /\ ops' = <<>> /\ history' = history)
        /\ \A t \in RolledBack, k \in 1..Len(history') :
               IsTransactionRecord(history'[k]) => history'[k].id # t ]_vars

\* a transaction in which an individual was added has just been rolled
\* back: the individual is in the document and its operation in no record
C40_Witness ==
    /\ ret.op = "rollback_transaction" /\ ~ret.raised
    /\ \E t \in RolledBack :
          /\ \A u \in RolledBack : u <= t
          /\ \E k \in 1..Len(log) :
                 /\ log[k].tx = t
                 /\ log[k].op.type = "add_individual"
                 /\ log[k].op.person_id \in Pointers(root, "INDI")
                 /\ log[k].op.person_id \notin Pointers(snap[t].begin, "INDI")
                 /\ \A j \in 1..Len(history) :
                        \A i \in 1..Len(history[j].operations) :
                            history[j].operations[i] # log[k].op

====
